---- MODULE Spec2Model ----
(***************************************************************************)
(* WhatsApp conversation engine of Miq2 (backend/app/routers/chat.py):     *)
(* webhook ingestion, chatbot state machine and the conversation lifecycle *)
(* operations, over the tables of backend/app/models/chat.py.              *)
(*                                                                         *)
(* Handlers are FastAPI coroutines over synchronous SQLAlchemy sessions:   *)
(* inside one server process a handler runs without interruption between   *)
(* two awaits, so every action below is the code between two awaits (the   *)
(* gateway calls).  The Worker* actions are the messages.upsert handler run *)
(* by several server processes against one PostgreSQL database, where the  *)
(* statements of two sessions interleave (READ COMMITTED) and an INSERT of *)
(* a key another open transaction has inserted waits for that transaction. *)
(***************************************************************************)
EXTENDS Integers, Sequences, FiniteSets, TLC

\* Python None / SQL NULL
None == "None"

-----------------------------------------------------------------------------
(* Bounds of the model *)

MaxChats == 2
MaxMessages == 2
MaxClock == 1
MaxEvents == 1
MaxStored == 3

-----------------------------------------------------------------------------
(* Text.  A text is a sequence of pieces; typed input is one character per *)
(* piece, configured messages are one piece each.                          *)

Whitespace == {" ", "\t", "\n"}

DigitChars == {"0", "1", "2", "3", "4", "5", "6", "7", "8", "9"}

DigitVal(ch) ==
    CASE ch = "0" -> 0 [] ch = "1" -> 1 [] ch = "2" -> 2 [] ch = "3" -> 3
      [] ch = "4" -> 4 [] ch = "5" -> 5 [] ch = "6" -> 6 [] ch = "7" -> 7
      [] ch = "8" -> 8 [] ch = "9" -> 9

RECURSIVE LStrip(_)
LStrip(s) ==
    IF s # <<>> /\ Head(s) \in Whitespace THEN LStrip(Tail(s)) ELSE s

RECURSIVE RStrip(_)
RStrip(s) ==
    IF s # <<>> /\ s[Len(s)] \in Whitespace
    THEN RStrip(SubSeq(s, 1, Len(s) - 1))
    ELSE s

\* str.strip()
Strip(s) == RStrip(LStrip(s))

\* The digits of an int() literal: digits, single underscores between digits.
IsDigits(s) ==
    /\ s # <<>>
    /\ \A i \in 1..Len(s) : s[i] \in DigitChars \cup {"_"}
    /\ s[1] \in DigitChars
    /\ s[Len(s)] \in DigitChars
    /\ \A i \in 1..(Len(s) - 1) : ~(s[i] = "_" /\ s[i + 1] = "_")

RECURSIVE DigitsValue(_, _)
DigitsValue(s, acc) ==
    IF s = <<>> THEN acc
    ELSE IF Head(s) = "_" THEN DigitsValue(Tail(s), acc)
    ELSE DigitsValue(Tail(s), 10 * acc + DigitVal(Head(s)))

\* int(text): [ok |-> FALSE] stands for ValueError.
ParseInt(s) ==
    LET t == Strip(s)
        signed == t # <<>> /\ Head(t) \in {"+", "-"}
        body == IF signed THEN Tail(t) ELSE t
    IN  IF IsDigits(body)
        THEN [ok |-> TRUE,
              value |-> IF signed /\ Head(t) = "-"
                        THEN 0 - DigitsValue(body, 0)
                        ELSE DigitsValue(body, 0)]
        ELSE [ok |-> FALSE, value |-> 0]

\* str(idx) for the positive menu indexes built by enumerate(teams, 1)
RECURSIVE StrOfInt(_)
StrOfInt(n) ==
    LET d == CHOOSE ch \in DigitChars : DigitVal(ch) = n % 10
    IN  IF n < 10 THEN <<d>> ELSE StrOfInt(n \div 10) \o <<d>>

-----------------------------------------------------------------------------
(* Identifiers.  A gateway identifier (JID) is its number followed by its  *)
(* domain; the empty JID is the empty sequence.                            *)

JidA == <<"5511999990000", "@s.whatsapp.net">>
JidB == <<"5511888880000", "@s.whatsapp.net">>
JidGroup == <<"120363000000000000", "@g.us">>
JidEmpty == <<>>

\* "@g.us" in remote_jid
IsGroupJid(jid) == \E i \in 1..Len(jid) : jid[i] = "@g.us"

\* remote_jid.replace("@s.whatsapp.net", "")
JidNumber(jid) == SelectSeq(jid, LAMBDA piece : piece # "@s.whatsapp.net")

\* Rows of the teams table, in the order of db.query(Team).all()
Teams == <<"teamA", "teamB">>
TeamName(t) == IF t = "teamA" THEN "Suporte" ELSE "Vendas"

\* The instance the ChatConfig row is created for, and one it never has
InstanceName == "miq2"
UnknownInstance == "ghost"

\* Nullable integer and timestamp columns: <<>> is NULL, <<v>> holds v
Null == <<>>
Some(v) == <<v>>

ChatStatus == [WAITING |-> "waiting", IN_PROGRESS |-> "in_progress",
               CLOSED |-> "closed"]

ChatbotState == [WELCOME |-> "welcome", MENU |-> "menu",
                 WAITING_AGENT |-> "waiting_agent", WITH_AGENT |-> "with_agent",
                 RATING |-> "rating", FINISHED |-> "finished"]

ConnectionStatus == [DISCONNECTED |-> "disconnected", CONNECTING |-> "connecting",
                     CONNECTED |-> "connected", QRCODE |-> "qrcode"]

-----------------------------------------------------------------------------
(* Chatbot configuration rows (ChatbotConfig) *)

WelcomeMessage == <<"Ola! Bem-vindo ao nosso atendimento.">>
MenuMessage == <<"Por favor, selecione uma opcao:">>
InvalidOptionMessage == <<"Opcao invalida. Por favor, escolha uma das opcoes disponiveis.">>
QueueMessage == <<"Voce esta na fila. Em breve um atendente ira te atender.">>
RatingRequestMessage == <<"Por favor, avalie nosso atendimento de 1 a 10:">>
RatingThanksMessage == <<"Obrigado pela avaliacao! Ate a proxima.">>

\* The fallback texts written in the handlers
DefaultInvalidOption == <<"Opcao invalida. Por favor, escolha uma das opcoes disponiveis.">>
DefaultRatingRequest == <<"Por favor, avalie nosso atendimento de 1 a 10:">>
DefaultRatingThanks == <<"Obrigado pela avaliacao! Ate a proxima.">>
RatingRetryPrompt == <<"Por favor, digite um numero de 1 a 10 para avaliar nosso atendimento:">>
DefaultQueueMessage(option_text) ==
    <<"Voce sera atendido em ", option_text, ". Aguarde um momento.">>

\* ChatbotConfig(): the column defaults
DefaultChatbotConfig ==
    [is_active |-> TRUE,
     welcome_message |-> WelcomeMessage,
     menu_message |-> MenuMessage,
     invalid_option_message |-> InvalidOptionMessage,
     queue_message |-> QueueMessage,
     rating_request_message |-> RatingRequestMessage,
     rating_thanks_message |-> RatingThanksMessage,
     menu_options |-> <<>>]

MenuOption(option, text, team_id) ==
    [option |-> option, text |-> text, team_id |-> team_id]

\* Two options, the second without a target team
StandardOptions ==
    <<MenuOption(<<"1">>, "Suporte", "teamA"), MenuOption(<<"2">>, "Outros", None)>>

\* MenuOption.option is any string: a code repeated, a code with a blank
RepeatedOptions ==
    <<MenuOption(<<"1">>, "Suporte", "teamA"), MenuOption(<<"1">>, "Vendas", "teamB"),
      MenuOption(<<" ", "3">>, "Outros", None)>>

\* Texts an operator wrote over the defaults
CustomInvalidOption == <<"Nao entendi. Escolha uma das opcoes abaixo.">>
CustomRatingThanks == <<"Obrigado! Sua nota foi registrada.">>

StandardChatbotConfig ==
    [DefaultChatbotConfig EXCEPT !.menu_options = StandardOptions,
                                 !.invalid_option_message = CustomInvalidOption,
                                 !.rating_thanks_message = CustomRatingThanks]

\* Texts sent as null or empty fall back to the texts of the handlers
BareChatbotConfig ==
    [DefaultChatbotConfig EXCEPT !.menu_options = RepeatedOptions,
                                 !.invalid_option_message = <<>>,
                                 !.queue_message = <<>>,
                                 !.rating_request_message = <<>>,
                                 !.rating_thanks_message = <<>>]

InactiveChatbotConfig ==
    [StandardChatbotConfig EXCEPT !.is_active = FALSE]

-----------------------------------------------------------------------------
(* State *)

VARIABLES
    contacts,        \* chat_contacts: the remote_jid of every row (unique)
    chats,           \* chats: rows in insertion order, the index is the id
    messages,        \* chat_messages: rows in insertion order
    chatbot_configs, \* chatbot_config: no row or one row
    chat_configs,    \* chat_config: rows, instance_name unique
    now,             \* the wall clock, in seconds
    requests,        \* handlers suspended at an await, per request slot
    events,          \* the gateway's events of the texts it sent, in flight
    gateway_calls,   \* log: the gateway calls completed by the latest step
    response         \* log: what the latest handler answered its caller

vars == <<contacts, chats, messages, chatbot_configs, chat_configs, now,
          requests, events, gateway_calls, response>>

Slots == {"r1", "r2"}

\* Chat(...): a new row of chats (models/chat.py column defaults)
NewChat(protocol, contact_id) ==
    [protocol |-> protocol,
     contact_id |-> contact_id,
     status |-> ChatStatus.WAITING,
     chatbot_state |-> ChatbotState.WELCOME,
     team_id |-> None,
     assigned_user_id |-> None,
     classification |-> None,
     rating |-> Null,
     closing_comments |-> None,
     closed_by_id |-> None,
     closed_at |-> Null,
     first_response_at |-> None]

\* f"ATD{datetime.now().strftime('%Y%m%d%H%M%S')}": one code per second
Protocol(clock) == <<"ATD", clock>>

\* ChatMessage(...): a new row of chat_messages
NewMessage(chat_id, message_id, remote_jid, from_me, message_type, content, media_url, status) ==
    [chat_id |-> chat_id,
     message_id |-> message_id,
     remote_jid |-> remote_jid,
     from_me |-> from_me,
     message_type |-> message_type,
     content |-> content,
     media_url |-> media_url,
     status |-> status]

Idle ==
    [pc |-> "idle", chat |-> 0, user |-> None, instance |-> None,
     jid |-> JidEmpty, text |-> <<>>, snap |-> Null, data |-> Null,
     accepted |-> FALSE]

Request(pc, chat, user, instance, jid, text, snap, data) ==
    [pc |-> pc, chat |-> chat, user |-> user, instance |-> instance,
     jid |-> jid, text |-> text, snap |-> snap, data |-> data,
     accepted |-> FALSE]

\* A request slot no handler is using
FreeSlot(p) == requests[p].pc = "idle"

\* What a session of messages.upsert holds between its statements: the
\* event's message, and the rows it has inserted and not yet committed
WorkerData(message_id, message, new_contact, protocol) ==
    Some([message_id |-> message_id, message |-> message,
          new_contact |-> new_contact, protocol |-> protocol])

WorkerPcs == {"contact_missing", "contact_found", "chat_missing", "chat_found"}

\* Session q holds an uncommitted chat_contacts row with the identifier
PendingContact(q, remote_jid) ==
    /\ requests[q].pc \in WorkerPcs
    /\ requests[q].jid = remote_jid
    /\ requests[q].data[1].new_contact

\* Session q holds an uncommitted chats row with the protocol code
PendingChat(q, protocol) ==
    /\ requests[q].pc \in WorkerPcs
    /\ requests[q].data[1].protocol = Some(protocol)

PendingChats ==
    {q \in Slots : requests[q].pc \in WorkerPcs /\ requests[q].data[1].protocol # Null}

\* A call of evolution_api: send_text(instance_name, number, text)
GatewayCall(instance, number, text, ok) ==
    [instance |-> instance, number |-> number, text |-> text, ok |-> ok]

\* The gateway posts an event for a text it sent when the instance's webhook
\* is subscribed to it; create_instance subscribes to MESSAGES_UPSERT,
\* MESSAGES_UPDATE, CONNECTION_UPDATE, QRCODE_UPDATED and CONTACTS_UPSERT
Unsubscribed ==
    {[instance |-> None, remote_jid |-> JidEmpty, message_id |-> None,
      message |-> [conversation |-> Null]]}

\* The identifiers the gateway gives the texts it sends
SentIds == {"SENT1", "SENT2", "SENT3"}

FreshId ==
    CHOOSE id \in SentIds :
        /\ \A i \in DOMAIN messages : messages[i].message_id # id
        /\ events # Unsubscribed => \A e \in events : e.message_id # id

\* The data of the event of a text the gateway sent: its key and its message
SentEvent(call) ==
    [instance |-> call.instance,
     remote_jid |-> call.number \o <<"@s.whatsapp.net">>,
     message_id |-> FreshId,
     message |-> [conversation |-> Some(call.text)]]

\* The calls of a step that the gateway accepted
Accepted(calls) == {i \in DOMAIN calls : calls[i].ok}

\* The events in flight after a step that made the calls
EmitEvents(calls) ==
    IF events = Unsubscribed \/ Accepted(calls) = {}
    THEN UNCHANGED events
    ELSE /\ Cardinality(events) < MaxEvents
         /\ events' = events \cup {SentEvent(calls[i]) : i \in Accepted(calls)}

\* The log is kept when a behaviour starts with it on, and never otherwise
LogOff == [endpoint |-> "none", code |-> 0, status |-> "off"]
Answer(r) == IF response = LogOff THEN LogOff ELSE r
Calls(calls) == IF response = LogOff THEN <<>> ELSE calls

WebhookOk == [endpoint |-> "webhook", code |-> 200, status |-> "ok"]
WebhookError == [endpoint |-> "webhook", code |-> 200, status |-> "error"]
WebhookPending == [endpoint |-> "webhook", code |-> 0, status |-> "pending"]
Unhandled(endpoint) == [endpoint |-> endpoint, code |-> 500, status |-> "raised"]
Http(endpoint, code) == [endpoint |-> endpoint, code |-> code, status |-> "http"]

\* A deployment: the configuration rows present when the traffic starts
ConnectedConfig ==
    [instance_name |-> InstanceName, connection_status |-> ConnectionStatus.CONNECTED]

DisconnectedConfig ==
    [instance_name |-> InstanceName, connection_status |-> ConnectionStatus.DISCONNECTED]

Start(chatbot_rows, chat_rows, log) ==
    /\ contacts = {}
    /\ chats = <<>>
    /\ messages = <<>>
    /\ chatbot_configs = chatbot_rows
    /\ chat_configs = chat_rows
    /\ now = 0
    /\ requests = [p \in Slots |-> Idle]
    /\ events = Unsubscribed
    /\ gateway_calls = <<>>
    /\ response = log

-----------------------------------------------------------------------------
(* Message bodies.  The gateway's message object is a dict: a function     *)
(* from the keys present to their values.                                  *)

\* dict.get(key)
Get(d, key) == IF key \in DOMAIN d THEN d[key] ELSE Null

\* f"data:{mimetype};base64,{base64}" when base64 is sent, else the url
MediaUrl(sub, default_mimetype) ==
    IF Get(sub, "base64") # Null
    THEN Some(<<"data:",
                IF Get(sub, "mimetype") # Null THEN sub.mimetype[1] ELSE default_mimetype,
                ";base64,", sub.base64[1]>>)
    ELSE Get(sub, "url")

\* _handle_message_upsert: "Determine message type and content"
ExtractContent(message) ==
    IF "conversation" \in DOMAIN message
    THEN [msg_type |-> "text", content |-> message.conversation, media_url |-> Null]
    ELSE IF "extendedTextMessage" \in DOMAIN message
    THEN [msg_type |-> "text", content |-> Get(message.extendedTextMessage, "text"),
          media_url |-> Null]
    ELSE IF "imageMessage" \in DOMAIN message
    THEN [msg_type |-> "image", content |-> Get(message.imageMessage, "caption"),
          media_url |-> MediaUrl(message.imageMessage, "image/jpeg")]
    ELSE IF "videoMessage" \in DOMAIN message
    THEN [msg_type |-> "video", content |-> Get(message.videoMessage, "caption"),
          media_url |-> MediaUrl(message.videoMessage, "video/mp4")]
    ELSE IF "audioMessage" \in DOMAIN message
    THEN [msg_type |-> "audio", content |-> Null,
          media_url |-> MediaUrl(message.audioMessage, "audio/ogg")]
    ELSE IF "documentMessage" \in DOMAIN message
    THEN [msg_type |-> "document", content |-> Get(message.documentMessage, "fileName"),
          media_url |-> MediaUrl(message.documentMessage, "application/octet-stream")]
    ELSE IF "stickerMessage" \in DOMAIN message
    THEN [msg_type |-> "sticker", content |-> Null,
          media_url |-> MediaUrl(message.stickerMessage, "image/webp")]
    ELSE [msg_type |-> "text", content |-> Null, media_url |-> Null]

TextMessage(text) == [conversation |-> Some(text)]

-----------------------------------------------------------------------------
(* Queries *)

\* db.query(ChatConfig).filter(ChatConfig.instance_name == instance).first()
HasChatConfig(configs, instance) ==
    \E i \in DOMAIN configs : configs[i].instance_name = instance

\* Chat.contact_id == contact.id, Chat.status != ChatStatus.CLOSED
ActiveChats(cs, contact_id) ==
    {i \in DOMAIN cs : cs[i].contact_id = contact_id /\ cs[i].status # ChatStatus.CLOSED}

\* Chat.contact_id == contact.id, Chat.chatbot_state == ChatbotState.RATING
RatingChats(cs, contact_id) ==
    {i \in DOMAIN cs :
        cs[i].contact_id = contact_id /\ cs[i].chatbot_state = ChatbotState.RATING}

\* a sorts before b under ORDER BY closed_at DESC (PostgreSQL: NULLs first)
ClosedNotBefore(a, b) ==
    \/ a.closed_at = Null
    \/ b.closed_at # Null /\ a.closed_at[1] >= b.closed_at[1]

\* The rows that would come first under ORDER BY closed_at ASC
EarliestClosed(cs, S) == {i \in S : \A j \in S : ClosedNotBefore(cs[j], cs[i])}

\* .order_by(Chat.closed_at.desc()).first(): the rows that may come first
LatestClosed(cs, S) == {i \in S : \A j \in S : ClosedNotBefore(cs[i], cs[j])}

\* "Get or create chat": the rows the lookups may return; {} is no row
FindChat(cs, contact_id, from_me) ==
    IF ActiveChats(cs, contact_id) # {}
    THEN ActiveChats(cs, contact_id)
    ELSE IF from_me THEN {}
    ELSE LatestClosed(cs, RatingChats(cs, contact_id))

\* Chat.protocol is unique: the INSERT of a second row with the code fails
ProtocolTaken(cs, protocol) == \E i \in DOMAIN cs : cs[i].protocol = protocol

-----------------------------------------------------------------------------
(* Chatbot state machine: _process_chatbot *)

\* chatbot_config.menu_options or one option per team
MenuOptions(cfg) ==
    IF cfg.menu_options # <<>>
    THEN cfg.menu_options
    ELSE [idx \in 1..Len(Teams) |->
            MenuOption(StrOfInt(idx), TeamName(Teams[idx]), Teams[idx])]

RECURSIVE MenuLines(_)
MenuLines(opts) ==
    IF opts = <<>> THEN <<>>
    ELSE <<"\n">> \o Head(opts).option \o <<" - ", Head(opts).text>>
         \o MenuLines(Tail(opts))

\* f"\n\n{menu_message}\n" followed by f"\n{option} - {text}" per option
MenuText(cfg) == <<"\n\n">> \o cfg.menu_message \o <<"\n">> \o MenuLines(MenuOptions(cfg))

\* The fallback text alone
OrTextFallback(a, b) == b

\* a or b, for texts
OrText(a, b) == IF a # <<>> THEN a ELSE b

\* The loop over menu_options as it would be without its break: the last
\* option whose code equals the input
SelectedOptionLast(opts, user_input) ==
    IF \E i \in DOMAIN opts : opts[i].option = user_input
    THEN CHOOSE i \in DOMAIN opts :
            /\ opts[i].option = user_input
            /\ \A j \in DOMAIN opts : opts[j].option = user_input => j <= i
    ELSE 0

\* The first option whose code equals the input; 0 when there is none
SelectedOption(opts, user_input) ==
    IF \E i \in DOMAIN opts : opts[i].option = user_input
    THEN CHOOSE i \in DOMAIN opts :
            /\ opts[i].option = user_input
            /\ \A j \in DOMAIN opts : opts[j].option = user_input => i <= j
    ELSE 0

\* The range test with its bounds off by one, and without its upper bound
RatingInRangeExclusive(rating) == 1 < rating /\ rating < 10
RatingInRangeUnbounded(rating) == 1 <= rating

\* 1 <= rating <= 10
RatingInRange(rating) == 1 <= rating /\ rating <= 10

BotResult(cs, calls, outcome, text) ==
    [chats |-> cs, calls |-> calls, outcome |-> outcome, text |-> text]

\* The WELCOME branch up to its await: the text handed to send_text
BotWelcome(cfg, cs, c) ==
    BotResult(cs, <<>>, "await", cfg.welcome_message \o MenuText(cfg))

\* The MENU branch as it would be with the commit after the send
BotMenuSendFirst(cfg, cs, c, message_content, instance, remote_jid, sent) ==
    IF message_content = Null
    THEN BotResult(cs, <<>>, "raised", <<>>)
    ELSE
    LET opts == MenuOptions(cfg)
        sel == SelectedOption(opts, Strip(message_content[1]))
        number == JidNumber(remote_jid)
    IN  IF sel # 0
        THEN LET team_id == opts[sel].team_id
                 cs1 == [cs EXCEPT ![c].team_id =
                                      IF team_id # None THEN team_id ELSE @,
                                   ![c].chatbot_state = ChatbotState.WAITING_AGENT]
                 queue_msg == OrText(cfg.queue_message,
                                     DefaultQueueMessage(opts[sel].text))
             IN  BotResult(IF sent THEN cs1 ELSE cs,
                           <<GatewayCall(instance, number, queue_msg, sent)>>,
                           IF sent THEN "done" ELSE "raised", <<>>)
        ELSE LET error_msg == OrText(cfg.invalid_option_message, DefaultInvalidOption)
             IN  BotResult(cs,
                           <<GatewayCall(instance, number, error_msg \o MenuText(cfg), sent)>>,
                           IF sent THEN "done" ELSE "raised", <<>>)

\* The MENU branch; sent is whether the gateway accepts the send
BotMenu(cfg, cs, c, message_content, instance, remote_jid, sent) ==
    IF message_content = Null
    THEN BotResult(cs, <<>>, "raised", <<>>)   \* None.strip(): AttributeError
    ELSE
    LET opts == MenuOptions(cfg)
        sel == SelectedOption(opts, Strip(message_content[1]))
        number == JidNumber(remote_jid)
    IN  IF sel # 0
        THEN LET team_id == opts[sel].team_id
                 cs1 == [cs EXCEPT ![c].team_id =
                                      IF team_id # None THEN team_id ELSE @,
                                   ![c].chatbot_state = ChatbotState.WAITING_AGENT]
                 queue_msg == OrText(cfg.queue_message,
                                     DefaultQueueMessage(opts[sel].text))
             IN  BotResult(cs1, <<GatewayCall(instance, number, queue_msg, sent)>>,
                           IF sent THEN "done" ELSE "raised", <<>>)
        ELSE LET error_msg == OrText(cfg.invalid_option_message, DefaultInvalidOption)
             IN  BotResult(cs,
                           <<GatewayCall(instance, number, error_msg \o MenuText(cfg), sent)>>,
                           IF sent THEN "done" ELSE "raised", <<>>)

\* The RATING branch
BotRating(cfg, cs, c, message_content, instance, remote_jid, sent) ==
    IF message_content = Null
    THEN BotResult(cs, <<>>, "raised", <<>>)   \* None.strip(): AttributeError
    ELSE
    LET parsed == ParseInt(message_content[1])
        number == JidNumber(remote_jid)
    IN  IF parsed.ok /\ RatingInRange(parsed.value)
        THEN LET cs1 == [cs EXCEPT ![c].rating = Some(parsed.value),
                                   ![c].chatbot_state = ChatbotState.FINISHED]
                 thanks_msg == OrText(cfg.rating_thanks_message, DefaultRatingThanks)
             IN  BotResult(cs1, <<GatewayCall(instance, number, thanks_msg, sent)>>,
                           IF sent THEN "done" ELSE "raised", <<>>)
        ELSE BotResult(cs, <<GatewayCall(instance, number, RatingRetryPrompt, sent)>>,
                       IF sent THEN "done" ELSE "raised", <<>>)

\* _process_chatbot as it would be with the menu offered in every state
\* other than WELCOME and RATING
ProcessChatbotMenuElse(cs, c, message_content, instance, remote_jid, sent) ==
    IF chatbot_configs = <<>> \/ ~chatbot_configs[1].is_active
    THEN BotResult(cs, <<>>, "done", <<>>)
    ELSE IF ~HasChatConfig(chat_configs, instance)
    THEN BotResult(cs, <<>>, "done", <<>>)
    ELSE LET cfg == chatbot_configs[1]
             state == cs[c].chatbot_state
         IN  IF state = ChatbotState.WELCOME
             THEN BotWelcome(cfg, cs, c)
             ELSE IF state = ChatbotState.RATING
             THEN BotRating(cfg, cs, c, message_content, instance, remote_jid, sent)
             ELSE BotMenu(cfg, cs, c, message_content, instance, remote_jid, sent)

\* _process_chatbot on the committed rows cs, for chat c
ProcessChatbot(cs, c, message_content, instance, remote_jid, sent) ==
    IF chatbot_configs = <<>> \/ ~chatbot_configs[1].is_active
    THEN BotResult(cs, <<>>, "done", <<>>)
    ELSE IF ~HasChatConfig(chat_configs, instance)
    THEN BotResult(cs, <<>>, "done", <<>>)
    ELSE LET cfg == chatbot_configs[1]
             state == cs[c].chatbot_state
         IN  IF state = ChatbotState.WELCOME
             THEN BotWelcome(cfg, cs, c)
             ELSE IF state = ChatbotState.MENU
             THEN BotMenu(cfg, cs, c, message_content, instance, remote_jid, sent)
             ELSE IF state = ChatbotState.RATING
             THEN BotRating(cfg, cs, c, message_content, instance, remote_jid, sent)
             ELSE BotResult(cs, <<>>, "done", <<>>)

-----------------------------------------------------------------------------
(* Webhook: handle_webhook and its event handlers *)

\* handle_webhook as it would be without its except clause
HandleWebhookUncaught(raised) == IF raised THEN Unhandled("webhook") ELSE WebhookOk

\* handle_webhook: the handler's work is inside try / except Exception
HandleWebhook(raised) == IF raised THEN WebhookError ELSE WebhookOk

\* A handler that returns, or raises, before it commits: the session is
\* closed and its pending rows are rolled back; requests1 is the request
\* slots once the handler has ended
Rollback(raised, requests1) ==
    /\ response' = Answer(HandleWebhook(raised))
    /\ gateway_calls' = Calls(<<>>)
    /\ EmitEvents(<<>>)
    /\ requests' = requests1
    /\ UNCHANGED <<contacts, chats, messages, chatbot_configs, chat_configs, now>>

WebhookNoChange(raised) == Rollback(raised, requests)

\* The rows of chats after "Get or create chat", given the row found (0: none)
ChatsAfterResolve(cs, found, contact_id, clock) ==
    IF found = 0 THEN Append(cs, NewChat(Protocol(clock), contact_id)) ELSE cs

\* The same part as it would be with one commit, after the chatbot: a reply
\* the gateway refuses rolls the row back
StoreMessageLate(limit, p, instance, remote_jid, message_id, from_me, message, sent, contacts1, chats1, c, requests1) ==
    LET ext == ExtractContent(message)
        row == NewMessage(c, message_id, remote_jid, from_me, ext.msg_type,
                          ext.content, ext.media_url,
                          IF from_me THEN "sent" ELSE "received")
        bot == ProcessChatbot(chats1, c, ext.content, instance, remote_jid, sent)
    IN  IF message_id = None
        THEN Rollback(TRUE, requests1)   \* message_id is NOT NULL: IntegrityError
        ELSE /\ Len(messages) < limit
             /\ contacts' = contacts1
             /\ messages' = IF ~from_me /\ bot.outcome = "raised"
                            THEN messages ELSE Append(messages, row)
             /\ UNCHANGED <<chatbot_configs, chat_configs, now>>
             /\ IF from_me
                THEN /\ chats' = chats1
                     /\ gateway_calls' = Calls(<<>>)
                     /\ EmitEvents(<<>>)
                     /\ response' = Answer(HandleWebhook(FALSE))
                     /\ requests' = requests1
                ELSE /\ chats' = bot.chats
                     /\ IF bot.outcome = "await"
                        THEN /\ requests1[p].pc = "idle"
                             /\ requests' = [requests1 EXCEPT ![p] =
                                    Request("welcome_send", c, None, instance,
                                            remote_jid, bot.text, Null, Null)]
                             /\ gateway_calls' = Calls(<<>>)
                             /\ EmitEvents(<<>>)
                             /\ response' = Answer(WebhookPending)
                        ELSE /\ requests' = requests1
                             /\ gateway_calls' = Calls(bot.calls)
                             /\ EmitEvents(bot.calls)
                             /\ response' = Answer(HandleWebhook(bot.outcome = "raised"))

\* The part of _handle_message_upsert from "Create message record" on, for
\* the chat c of the rows chats1, with the contact rows contacts1; requests1
\* is the request slots when the handler ends without awaiting
StoreMessageWithin(limit, p, instance, remote_jid, message_id, from_me, message, sent, contacts1, chats1, c, requests1) ==
    LET ext == ExtractContent(message)
        row == NewMessage(c, message_id, remote_jid, from_me, ext.msg_type,
                          ext.content, ext.media_url,
                          IF from_me THEN "sent" ELSE "received")
        bot == ProcessChatbot(chats1, c, ext.content, instance, remote_jid, sent)
    IN  IF message_id = None
        THEN Rollback(TRUE, requests1)   \* message_id is NOT NULL: IntegrityError
        ELSE /\ Len(messages) < limit
             /\ contacts' = contacts1
             /\ messages' = Append(messages, row)
             /\ UNCHANGED <<chatbot_configs, chat_configs, now>>
             /\ IF from_me
                THEN /\ chats' = chats1
                     /\ gateway_calls' = Calls(<<>>)
                     /\ EmitEvents(<<>>)
                     /\ response' = Answer(HandleWebhook(FALSE))
                     /\ requests' = requests1
                ELSE /\ chats' = bot.chats
                     /\ IF bot.outcome = "await"
                        THEN /\ requests1[p].pc = "idle"
                             /\ requests' = [requests1 EXCEPT ![p] =
                                    Request("welcome_send", c, None, instance,
                                            remote_jid, bot.text, Null, Null)]
                             /\ gateway_calls' = Calls(<<>>)
                             /\ EmitEvents(<<>>)
                             /\ response' = Answer(WebhookPending)
                        ELSE /\ requests' = requests1
                             /\ gateway_calls' = Calls(bot.calls)
                             /\ EmitEvents(bot.calls)
                             /\ response' = Answer(HandleWebhook(bot.outcome = "raised"))

\* The same while the table holds fewer than MaxMessages rows
StoreMessage(p, instance, remote_jid, message_id, from_me, message, sent, contacts1, chats1, c, requests1) ==
    StoreMessageWithin(MaxMessages, p, instance, remote_jid, message_id, from_me,
                       message, sent, contacts1, chats1, c, requests1)

\* messages.upsert, run by one server process: nothing interleaves before
\* the first await; limit bounds the rows of chat_messages
HandleMessageUpsertWithin(limit, p, instance, remote_jid, message_id, from_me, message, sent) ==
    LET contacts1 == contacts \cup {remote_jid}
        found == FindChat(chats, remote_jid, from_me)
    IN  IF IsGroupJid(remote_jid) \/ remote_jid = JidEmpty
        THEN WebhookNoChange(FALSE)
        ELSE IF found = {} /\ from_me
        THEN WebhookNoChange(FALSE)
        ELSE IF found = {} /\ ProtocolTaken(chats, Protocol(now))
        THEN WebhookNoChange(TRUE)   \* protocol is unique: IntegrityError
        ELSE IF found = {}
        THEN /\ Len(chats) < MaxChats
             /\ StoreMessageWithin(limit, p, instance, remote_jid, message_id,
                                   from_me, message, sent, contacts1,
                                   ChatsAfterResolve(chats, 0, remote_jid, now),
                                   Len(chats) + 1, requests)
        ELSE \E c \in found :
                StoreMessageWithin(limit, p, instance, remote_jid, message_id,
                                   from_me, message, sent, contacts1, chats, c,
                                   requests)

\* messages.upsert while the table holds fewer than MaxMessages rows
HandleMessageUpsert(p, instance, remote_jid, message_id, from_me, message, sent) ==
    HandleMessageUpsertWithin(MaxMessages, p, instance, remote_jid, message_id,
                              from_me, message, sent)

\* The WELCOME branch as it would be with the state change outside the try
WelcomeSentAlways(p, sent) ==
    LET r == requests[p]
        call == GatewayCall(r.instance, JidNumber(r.jid), r.text, sent)
    IN  /\ r.pc = "welcome_send"
        /\ r.accepted => sent
        /\ requests' = [requests EXCEPT ![p] = Idle]
        /\ gateway_calls' = Calls(<<call>>)
        /\ EmitEvents(IF r.accepted THEN <<>> ELSE <<call>>)
        /\ response' = Answer(HandleWebhook(FALSE))
        /\ chats' = [chats EXCEPT ![r.chat].chatbot_state = ChatbotState.MENU]
        /\ UNCHANGED <<contacts, messages, chatbot_configs, chat_configs, now>>

\* _process_chatbot, WELCOME branch, after its await
WelcomeSent(p, sent) ==
    LET r == requests[p]
        call == GatewayCall(r.instance, JidNumber(r.jid), r.text, sent)
    IN  /\ r.pc = "welcome_send"
        /\ r.accepted => sent
        /\ requests' = [requests EXCEPT ![p] = Idle]
        /\ gateway_calls' = Calls(<<call>>)
        /\ EmitEvents(IF r.accepted THEN <<>> ELSE <<call>>)
        /\ response' = Answer(HandleWebhook(FALSE))
        /\ chats' = IF sent
                    THEN [chats EXCEPT ![r.chat].chatbot_state = ChatbotState.MENU]
                    ELSE chats
        /\ UNCHANGED <<contacts, messages, chatbot_configs, chat_configs, now>>

\* A payload that is no JSON object: request.json() or payload.get raises
HandleMalformed == WebhookNoChange(TRUE)

\* An event name no branch matches
HandleUnknownEvent == WebhookNoChange(FALSE)

\* _handle_contacts_upsert for one contact; the INSERT waits while another
\* transaction holds an uncommitted row with the identifier
HandleContactsUpsert(remote_jid) ==
    IF remote_jid = JidEmpty \/ IsGroupJid(remote_jid)
    THEN WebhookNoChange(FALSE)
    ELSE /\ \A q \in Slots : ~PendingContact(q, remote_jid)
         /\ contacts' = contacts \cup {remote_jid}
         /\ response' = Answer(HandleWebhook(FALSE))
         /\ gateway_calls' = Calls(<<>>)
         /\ EmitEvents(<<>>)
         /\ UNCHANGED <<chats, messages, chatbot_configs, chat_configs, now,
                        requests>>


\* _handle_contacts_upsert as it would be if it skipped only the entries
\* without an identifier
HandleContactsListGroups(remote_jids) ==
    LET kept == {remote_jids[i] : i \in DOMAIN remote_jids} \ {JidEmpty}
    IN  /\ \A q \in Slots, j \in kept : ~PendingContact(q, j)
        /\ contacts' = contacts \cup kept
        /\ response' = Answer(HandleWebhook(FALSE))
        /\ gateway_calls' = Calls(<<>>)
        /\ EmitEvents(<<>>)
        /\ UNCHANGED <<chats, messages, chatbot_configs, chat_configs, now, requests>>

\* _handle_contacts_upsert for a list of contacts: the loop skips the entries
\* without an identifier and the groups, and one commit follows it
HandleContactsList(remote_jids) ==
    LET kept == {j \in {remote_jids[i] : i \in DOMAIN remote_jids} :
                    j # JidEmpty /\ ~IsGroupJid(j)}
    IN  /\ \A q \in Slots, j \in kept : ~PendingContact(q, j)
        /\ contacts' = contacts \cup kept
        /\ response' = Answer(HandleWebhook(FALSE))
        /\ gateway_calls' = Calls(<<>>)
        /\ EmitEvents(<<>>)
        /\ UNCHANGED <<chats, messages, chatbot_configs, chat_configs, now, requests>>

\* The gateway accepts the text of a handler suspended at send_text and
\* raises its event before the handler resumes
GatewayAccepts(p) ==
    LET r == requests[p]
    IN  /\ r.pc \in {"welcome_send", "send_text", "close_send"}
        /\ ~r.accepted
        /\ events # Unsubscribed
        /\ Cardinality(events) < MaxEvents
        /\ events' = events \cup
                {SentEvent(GatewayCall(r.instance, JidNumber(r.jid), r.text, TRUE))}
        /\ requests' = [requests EXCEPT ![p].accepted = TRUE]
        /\ UNCHANGED <<contacts, chats, messages, chatbot_configs, chat_configs, now,
                       gateway_calls, response>>

\* The events in flight once the gateway has posted event e
Posted(e) == IF events = Unsubscribed THEN events ELSE events \ {e}

\* _handle_send_message: "Determine message content and type"
SentContent(message) ==
    IF "conversation" \in DOMAIN message
    THEN [msg_type |-> "text", content |-> message.conversation, media_url |-> Null]
    ELSE IF "extendedTextMessage" \in DOMAIN message
    THEN [msg_type |-> "text", content |-> Get(message.extendedTextMessage, "text"),
          media_url |-> Null]
    ELSE IF "imageMessage" \in DOMAIN message
    THEN [msg_type |-> "image", content |-> Get(message.imageMessage, "caption"),
          media_url |-> Get(message.imageMessage, "url")]
    ELSE IF "videoMessage" \in DOMAIN message
    THEN [msg_type |-> "video", content |-> Get(message.videoMessage, "caption"),
          media_url |-> Get(message.videoMessage, "url")]
    ELSE IF "audioMessage" \in DOMAIN message
    THEN [msg_type |-> "audio", content |-> Null,
          media_url |-> Get(message.audioMessage, "url")]
    ELSE IF "documentMessage" \in DOMAIN message
    THEN [msg_type |-> "document", content |-> Get(message.documentMessage, "fileName"),
          media_url |-> Get(message.documentMessage, "url")]
    ELSE IF "stickerMessage" \in DOMAIN message
    THEN [msg_type |-> "sticker", content |-> Null,
          media_url |-> Get(message.stickerMessage, "url")]
    ELSE [msg_type |-> "text", content |-> Null, media_url |-> Null]

\* _handle_send_message for the event e the gateway posts
HandleSendMessage(e) ==
    LET ext == SentContent(e.message)
        active == ActiveChats(chats, e.remote_jid)
        skipped == \/ IsGroupJid(e.remote_jid)
                   \/ e.remote_jid = JidEmpty
                   \/ e.remote_jid \notin contacts
                   \/ active = {}
                   \/ \E i \in DOMAIN messages : messages[i].message_id = e.message_id
    IN  /\ events' = Posted(e)
        /\ response' = Answer(HandleWebhook(FALSE))
        /\ gateway_calls' = Calls(<<>>)
        /\ UNCHANGED <<contacts, chats, chatbot_configs, chat_configs, now, requests>>
        /\ IF skipped
           THEN UNCHANGED messages
           ELSE /\ Len(messages) < MaxMessages
                /\ \E c \in active :
                      messages' = Append(messages,
                          NewMessage(c, e.message_id, e.remote_jid, TRUE, ext.msg_type,
                                     ext.content, ext.media_url, "sent"))


\* status_map.get(update_status, current): the gateway's codes 1..4
StatusMap(update_status, current) ==
    CASE update_status = 1 -> "pending"
      [] update_status = 2 -> "sent"
      [] update_status = 3 -> "delivered"
      [] update_status = 4 -> "read"
      [] OTHER -> current

\* The row query(ChatMessage).filter(message_id == ...).first() returns (0: none)
FirstMessage(ms, message_id) ==
    IF \E i \in DOMAIN ms : ms[i].message_id = message_id
    THEN CHOOSE i \in DOMAIN ms :
            /\ ms[i].message_id = message_id
            /\ \A j \in DOMAIN ms : ms[j].message_id = message_id => i <= j
    ELSE 0

\* _handle_message_update as it would be if it recorded a message it does
\* not know
HandleMessageUpdateRecording(message_id, update_status) ==
    LET found == FirstMessage(messages, message_id)
    IN  IF message_id = None \/ update_status = 0
        THEN WebhookNoChange(FALSE)
        ELSE /\ found = 0 => Len(messages) < MaxMessages
             /\ messages' =
                   IF found # 0
                   THEN [messages EXCEPT ![found].status = StatusMap(update_status, @)]
                   ELSE Append(messages,
                               NewMessage(0, message_id, JidEmpty, TRUE, "text", Null,
                                          Null, StatusMap(update_status, "pending")))
             /\ response' = Answer(HandleWebhook(FALSE))
             /\ gateway_calls' = Calls(<<>>)
             /\ EmitEvents(<<>>)
             /\ UNCHANGED <<contacts, chats, chatbot_configs, chat_configs, now,
                            requests>>

\* _handle_message_update; update_status 0 stands for a missing status
HandleMessageUpdate(message_id, update_status) ==
    LET found == FirstMessage(messages, message_id)
    IN  IF message_id = None \/ update_status = 0
        THEN WebhookNoChange(FALSE)
        ELSE /\ messages' =
                   IF found # 0
                   THEN [messages EXCEPT ![found].status = StatusMap(update_status, @)]
                   ELSE messages
             /\ response' = Answer(HandleWebhook(FALSE))
             /\ gateway_calls' = Calls(<<>>)
             /\ EmitEvents(<<>>)
             /\ UNCHANGED <<contacts, chats, chatbot_configs, chat_configs, now,
                            requests>>

-----------------------------------------------------------------------------
(* messages.upsert for an inbound message, statement by statement, as one  *)
(* of several server processes runs it in its own session.  A session sees *)
(* the committed rows and its own.                                         *)

\* "Get or create contact": the SELECT
WorkerLookupContact(p, remote_jid, message_id, message) ==
    /\ requests[p].pc = "idle"
    /\ IF IsGroupJid(remote_jid) \/ remote_jid = JidEmpty
       THEN WebhookNoChange(FALSE)
       ELSE /\ requests' = [requests EXCEPT ![p] =
                   Request(IF remote_jid \in contacts
                           THEN "contact_found" ELSE "contact_missing",
                           0, None, InstanceName, remote_jid, <<>>, Null,
                           WorkerData(message_id, message, FALSE, Null))]
            /\ response' = Answer(WebhookPending)
            /\ gateway_calls' = Calls(<<>>)
            /\ EmitEvents(<<>>)
            /\ UNCHANGED <<contacts, chats, messages, chatbot_configs,
                           chat_configs, now>>

\* "Get or create contact": db.add(contact), db.flush().  remote_jid is
\* unique: the INSERT waits for a transaction that inserted the identifier,
\* and fails once a row with it is committed
WorkerInsertContact(p) ==
    LET r == requests[p]
    IN  /\ r.pc = "contact_missing"
        /\ \A q \in Slots \ {p} : ~PendingContact(q, r.jid)
        /\ IF r.jid \in contacts
           THEN Rollback(TRUE, [requests EXCEPT ![p] = Idle])
           ELSE /\ requests' = [requests EXCEPT
                       ![p].pc = "contact_found",
                       ![p].data = WorkerData(r.data[1].message_id,
                                              r.data[1].message, TRUE, Null)]
                /\ response' = Answer(WebhookPending)
                /\ gateway_calls' = Calls(<<>>)
                /\ EmitEvents(<<>>)
                /\ UNCHANGED <<contacts, chats, messages, chatbot_configs,
                               chat_configs, now>>

\* "Get or create chat": the SELECTs of an inbound message
WorkerLookupChat(p) ==
    LET r == requests[p]
    IN  /\ r.pc = "contact_found"
        /\ \E c \in FindChat(chats, r.jid, FALSE) \cup {0} :
             /\ c = 0 <=> FindChat(chats, r.jid, FALSE) = {}
             /\ requests' = [requests EXCEPT
                    ![p].pc = IF c = 0 THEN "chat_missing" ELSE "chat_found",
                    ![p].chat = c]
        /\ response' = Answer(WebhookPending)
        /\ gateway_calls' = Calls(<<>>)
        /\ EmitEvents(<<>>)
        /\ UNCHANGED <<contacts, chats, messages, chatbot_configs, chat_configs,
                       now>>

\* "Get or create chat": Chat(protocol=...), db.add(chat), db.flush().
\* protocol is unique, as remote_jid is
WorkerInsertChat(p) ==
    LET r == requests[p]
        protocol == Protocol(now)
    IN  /\ r.pc = "chat_missing"
        /\ \A q \in Slots \ {p} : ~PendingChat(q, protocol)
        /\ IF ProtocolTaken(chats, protocol)
           THEN Rollback(TRUE, [requests EXCEPT ![p] = Idle])
           ELSE /\ Len(chats) + Cardinality(PendingChats) < MaxChats
                /\ requests' = [requests EXCEPT
                       ![p].pc = "chat_found",
                       ![p].data = WorkerData(r.data[1].message_id,
                                              r.data[1].message,
                                              r.data[1].new_contact,
                                              Some(protocol))]
                /\ response' = Answer(WebhookPending)
                /\ gateway_calls' = Calls(<<>>)
                /\ EmitEvents(<<>>)
                /\ UNCHANGED <<contacts, chats, messages, chatbot_configs,
                               chat_configs, now>>

\* From "Determine message type and content" on: the commit writes the
\* session's rows, then the chatbot runs
WorkerCommit(p, sent) ==
    LET r == requests[p]
    IN  /\ r.pc = "chat_found"
        /\ LET d == r.data[1]
               chats1 == IF d.protocol # Null
                         THEN Append(chats, NewChat(d.protocol[1], r.jid))
                         ELSE chats
               c == IF d.protocol # Null THEN Len(chats) + 1 ELSE r.chat
           IN  StoreMessage(p, r.instance, r.jid, d.message_id, FALSE, d.message,
                            sent, contacts \cup {r.jid}, chats1, c,
                            [requests EXCEPT ![p] = Idle])

-----------------------------------------------------------------------------
(* Conversation lifecycle operations *)

\* The UPDATE a commit issues for a row loaded as snap whose attributes were
\* assigned the values of new: only attributes whose value differs from the
\* loaded one are written, the other columns keep what the table holds
ApplyChanges(row, snap, new) ==
    [f \in DOMAIN row |->
        IF f \in DOMAIN new /\ new[f] # snap[f] THEN new[f] ELSE row[f]]

\* Close times are kept as their rank among the stored close times
CloseTimes(cs) == {cs[i].closed_at[1] : i \in {j \in DOMAIN cs : cs[j].closed_at # Null}}

RankCloseTimes(cs) ==
    [i \in DOMAIN cs |->
        IF cs[i].closed_at = Null THEN cs[i]
        ELSE [cs[i] EXCEPT !.closed_at =
                Some(Cardinality({v \in CloseTimes(cs) : v <= cs[i].closed_at[1]}))]]

\* datetime.utcnow() at a close: later than every stored close time
UtcNow(cs) == Cardinality(CloseTimes(cs)) + 1

\* The row as a session holds it; its close time is not read again
Loaded(row) == Some([row EXCEPT !.closed_at = Null])

\* db.query(ChatConfig).filter(ChatConfig.is_active == True).first()
ActiveChatConfig(configs) == IF configs = <<>> THEN Null ELSE Some(configs[1])

NoChange(endpoint, code) ==
    /\ response' = Answer(Http(endpoint, code))
    /\ gateway_calls' = Calls(<<>>)
    /\ EmitEvents(<<>>)
    /\ UNCHANGED <<contacts, chats, messages, chatbot_configs, chat_configs, now,
                   requests>>

\* What any agent types
AgentText == <<"Bom dia, em que posso ajudar?">>

\* send_message up to its await of evolution_api.send_text
SendMessage(p, chat_id, user) ==
    LET config == ActiveChatConfig(chat_configs)
    IN  IF chat_id \notin DOMAIN chats
        THEN NoChange("send", 404)
        ELSE IF config = Null
                \/ config[1].connection_status # ConnectionStatus.CONNECTED
        THEN NoChange("send", 400)
        ELSE /\ FreeSlot(p)
             /\ requests' = [requests EXCEPT ![p] =
                    Request("send_text", chat_id, user, config[1].instance_name,
                            chats[chat_id].contact_id, AgentText,
                            Loaded(chats[chat_id]), Null)]
             /\ response' = Answer(Http("send", 0))
             /\ gateway_calls' = Calls(<<>>)
             /\ EmitEvents(<<>>)
             /\ UNCHANGED <<contacts, chats, messages, chatbot_configs,
                            chat_configs, now>>

\* "Update chat status if it was waiting": the attributes send_message assigns
SendAssignments(snap, user) ==
    IF snap.status = ChatStatus.WAITING
    THEN [status |-> ChatStatus.IN_PROGRESS,
          assigned_user_id |-> user,
          first_response_at |-> "set",
          chatbot_state |-> ChatbotState.WITH_AGENT]
    ELSE [status |-> snap.status]

\* send_message after its await; outcome is what send_text did
SendMessageDone(p, outcome) ==
    LET r == requests[p]
        call == GatewayCall(r.instance, <<r.jid[1]>>, r.text, outcome = "ok")
    IN  /\ r.pc = "send_text"
        /\ r.accepted => outcome = "ok"
        /\ requests' = [requests EXCEPT ![p] = Idle]
        /\ gateway_calls' = Calls(<<call>>)
        /\ EmitEvents(IF r.accepted THEN <<>> ELSE <<call>>)
        /\ UNCHANGED <<contacts, messages, chatbot_configs, chat_configs, now>>
        /\ IF outcome = "ok"
           THEN /\ chats' = [chats EXCEPT ![r.chat] =
                        ApplyChanges(@, r.snap[1], SendAssignments(r.snap[1], r.user))]
                /\ response' = Answer(Http("send", 200))
           ELSE /\ UNCHANGED chats
                /\ response' = Answer(IF outcome = "api_error"
                                      THEN Http("send", 502)
                                      ELSE Unhandled("send"))


\* transfer_chat as it would be if it left the status alone
TransferChatKeepingStatus(chat_id, target_team_id, target_user_id) ==
    IF chat_id \notin DOMAIN chats
    THEN NoChange("transfer", 404)
    ELSE /\ chats' = [chats EXCEPT ![chat_id] =
                ApplyChanges(@, @,
                    [team_id |-> target_team_id,
                     assigned_user_id |-> target_user_id])]
         /\ response' = Answer(Http("transfer", 200))
         /\ gateway_calls' = Calls(<<>>)
         /\ EmitEvents(<<>>)
         /\ UNCHANGED <<contacts, messages, chatbot_configs, chat_configs, now,
                        requests>>

\* transfer_chat
TransferChat(chat_id, target_team_id, target_user_id) ==
    IF chat_id \notin DOMAIN chats
    THEN NoChange("transfer", 404)
    ELSE /\ chats' = [chats EXCEPT ![chat_id] =
                ApplyChanges(@, @,
                    [team_id |-> target_team_id,
                     assigned_user_id |-> target_user_id,
                     status |-> IF target_user_id # None
                                THEN ChatStatus.IN_PROGRESS
                                ELSE ChatStatus.WAITING])]
         /\ response' = Answer(Http("transfer", 200))
         /\ gateway_calls' = Calls(<<>>)
         /\ EmitEvents(<<>>)
         /\ UNCHANGED <<contacts, messages, chatbot_configs, chat_configs, now,
                        requests>>

\* The attributes close_chat assigns; state is the chatbot state it chose
CloseAssignments(cs, state, close_data, user) ==
    [chatbot_state |-> state,
     status |-> ChatStatus.CLOSED,
     classification |-> close_data.classification,
     rating |-> close_data.rating,
     closing_comments |-> close_data.closing_comments,
     closed_by_id |-> user,
     closed_at |-> Some(UtcNow(cs))]

\* close_chat from "chat.status = ChatStatus.CLOSED" to its commit
CommitClose(cs, chat_id, snap, state, close_data, user) ==
    RankCloseTimes([cs EXCEPT ![chat_id] =
        ApplyChanges(@, snap, CloseAssignments(cs, state, close_data, user))])

\* close_chat up to its await of send_text, or to its end when it sends nothing
CloseChat(p, chat_id, close_data, user) ==
    LET config == ActiveChatConfig(chat_configs)
    IN  IF chat_id \notin DOMAIN chats
        THEN NoChange("close", 404)
        ELSE IF config # Null /\ chatbot_configs # <<>>
        THEN /\ FreeSlot(p)
             /\ requests' = [requests EXCEPT ![p] =
                    Request("close_send", chat_id, user, config[1].instance_name,
                            chats[chat_id].contact_id,
                            OrText(chatbot_configs[1].rating_request_message,
                                   DefaultRatingRequest),
                            Loaded(chats[chat_id]), Some(close_data))]
             /\ response' = Answer(Http("close", 0))
             /\ gateway_calls' = Calls(<<>>)
             /\ EmitEvents(<<>>)
             /\ UNCHANGED <<contacts, chats, messages, chatbot_configs,
                            chat_configs, now>>
        ELSE /\ chats' = CommitClose(chats, chat_id, Loaded(chats[chat_id])[1],
                                     ChatbotState.FINISHED, close_data, user)
             /\ response' = Answer(Http("close", 200))
             /\ gateway_calls' = Calls(<<>>)
             /\ EmitEvents(<<>>)
             /\ UNCHANGED <<contacts, messages, chatbot_configs, chat_configs, now,
                            requests>>

\* close_chat after its await as it would be without its except branch:
\* RATING whatever the gateway did
CloseChatDoneRating(p, sent) ==
    LET r == requests[p]
        call == GatewayCall(r.instance, JidNumber(r.jid), r.text, sent)
    IN  /\ r.pc = "close_send"
        /\ r.accepted => sent
        /\ requests' = [requests EXCEPT ![p] = Idle]
        /\ gateway_calls' = Calls(<<call>>)
        /\ EmitEvents(IF r.accepted THEN <<>> ELSE <<call>>)
        /\ chats' = CommitClose(chats, r.chat, r.snap[1], ChatbotState.RATING,
                                r.data[1], r.user)
        /\ response' = Answer(Http("close", 200))
        /\ UNCHANGED <<contacts, messages, chatbot_configs, chat_configs, now>>

\* close_chat after its await: RATING when the text was sent, else FINISHED
CloseChatDone(p, sent) ==
    LET r == requests[p]
        call == GatewayCall(r.instance, JidNumber(r.jid), r.text, sent)
    IN  /\ r.pc = "close_send"
        /\ r.accepted => sent
        /\ requests' = [requests EXCEPT ![p] = Idle]
        /\ gateway_calls' = Calls(<<call>>)
        /\ EmitEvents(IF r.accepted THEN <<>> ELSE <<call>>)
        /\ chats' = CommitClose(chats, r.chat, r.snap[1],
                                IF sent THEN ChatbotState.RATING
                                ELSE ChatbotState.FINISHED,
                                r.data[1], r.user)
        /\ response' = Answer(Http("close", 200))
        /\ UNCHANGED <<contacts, messages, chatbot_configs, chat_configs, now>>

\* reopen_chat as it would be without its status check
ReopenChatAny(chat_id, user) ==
    IF chat_id \notin DOMAIN chats
    THEN NoChange("reopen", 404)
    ELSE /\ chats' = RankCloseTimes([chats EXCEPT ![chat_id] =
                ApplyChanges(@, @,
                    [status |-> ChatStatus.IN_PROGRESS,
                     assigned_user_id |-> user,
                     closed_at |-> Null,
                     closed_by_id |-> None,
                     chatbot_state |-> ChatbotState.WITH_AGENT])])
         /\ response' = Answer(Http("reopen", 200))
         /\ gateway_calls' = Calls(<<>>)
         /\ EmitEvents(<<>>)
         /\ UNCHANGED <<contacts, messages, chatbot_configs, chat_configs, now,
                        requests>>

\* reopen_chat
ReopenChat(chat_id, user) ==
    IF chat_id \notin DOMAIN chats
    THEN NoChange("reopen", 404)
    ELSE IF chats[chat_id].status # ChatStatus.CLOSED
    THEN NoChange("reopen", 400)
    ELSE /\ chats' = RankCloseTimes([chats EXCEPT ![chat_id] =
                ApplyChanges(@, @,
                    [status |-> ChatStatus.IN_PROGRESS,
                     assigned_user_id |-> user,
                     closed_at |-> Null,
                     closed_by_id |-> None,
                     chatbot_state |-> ChatbotState.WITH_AGENT])])
         /\ response' = Answer(Http("reopen", 200))
         /\ gateway_calls' = Calls(<<>>)
         /\ EmitEvents(<<>>)
         /\ UNCHANGED <<contacts, messages, chatbot_configs, chat_configs, now,
                        requests>>

-----------------------------------------------------------------------------
(* Configuration *)

\* update_chatbot_config with every field of config_data set
UpdateChatbotConfig(config_data) ==
    /\ chatbot_configs' = <<config_data>>
    /\ response' = Answer(Http("chatbot_config", 200))
    /\ gateway_calls' = Calls(<<>>)
    /\ EmitEvents(<<>>)
    /\ UNCHANGED <<contacts, chats, messages, chat_configs, now, requests>>

\* The wall clock reaches the next second
Tick ==
    /\ now < MaxClock
    /\ now' = now + 1
    /\ UNCHANGED <<contacts, chats, messages, chatbot_configs, chat_configs,
                   requests, events, gateway_calls, response>>


-----------------------------------------------------------------------------
(* Users and the conversation list *)

ChatPermissions == {<<"chat", "read">>, <<"chat", "create">>, <<"chat", "update">>}

UserRow(is_active, is_superuser, teams, permissions) ==
    [is_active |-> is_active, is_superuser |-> is_superuser, teams |-> teams,
     permissions |-> permissions]

\* Rows of users with their teams and the permissions of their roles: an agent
\* of team A, an agent of no team, a superuser with no role, a member of
\* team A whose roles grant nothing on chats
UserTable ==
    [agent1 |-> UserRow(TRUE, FALSE, {"teamA"}, ChatPermissions),
     agent2 |-> UserRow(TRUE, FALSE, {}, ChatPermissions),
     admin  |-> UserRow(TRUE, TRUE, {}, {}),
     guest  |-> UserRow(TRUE, FALSE, {"teamA"}, {})]

UserIds == DOMAIN UserTable

\* PermissionService.has_permission
HasPermission(user, resource, action) ==
    \/ UserTable[user].is_superuser
    \/ <<resource, action>> \in UserTable[user].permissions

\* require_permission(resource, action): the caller passes, or gets 403
Permitted(user, resource, action) ==
    UserTable[user].is_active /\ HasPermission(user, resource, action)

\* The visibility rules as they would be without their last condition
VisibleToByStatus(row, user) ==
    LET u == UserTable[user]
    IN  IF u.is_superuser THEN TRUE
        ELSE IF u.teams = {}
        THEN \/ row.assigned_user_id = user
             \/ row.status = ChatStatus.WAITING /\ row.team_id = None
        ELSE \/ /\ row.status = ChatStatus.WAITING
                /\ row.team_id \in u.teams \/ row.team_id = None
             \/ /\ row.status = ChatStatus.IN_PROGRESS
                /\ row.assigned_user_id = user
             \/ /\ row.status = ChatStatus.CLOSED
                /\ row.team_id \in u.teams

\* list_chats: "Apply visibility rules for non-superusers"
VisibleTo(row, user) ==
    LET u == UserTable[user]
    IN  IF u.is_superuser THEN TRUE
        ELSE IF u.teams = {}
        THEN \/ row.assigned_user_id = user
             \/ row.status = ChatStatus.WAITING /\ row.team_id = None
        ELSE \/ /\ row.status = ChatStatus.WAITING
                /\ row.team_id \in u.teams \/ row.team_id = None
             \/ /\ row.status = ChatStatus.IN_PROGRESS
                /\ row.assigned_user_id = user
             \/ /\ row.status = ChatStatus.CLOSED
                /\ row.team_id \in u.teams
             \/ row.assigned_user_id = user

\* list_chats: "Apply additional filters"; None is a filter not given
Filtered(row, user, status, team_id, assigned_to_me) ==
    /\ status # None => row.status = status
    /\ team_id # None => row.team_id = team_id
    /\ assigned_to_me => row.assigned_user_id = user

\* The rows of the query of list_chats
ListQuery(cs, user, status, team_id, assigned_to_me) ==
    {c \in DOMAIN cs : /\ VisibleTo(cs[c], user)
                       /\ Filtered(cs[c], user, status, team_id, assigned_to_me)}

\* Query(1, ge=1) and Query(20, ge=1, le=100)
DefaultPage == 1
DefaultSize == 20

\* The number of rows of .offset((page - 1) * size).limit(size)
PageLength(total, page, size) ==
    LET rest == total - (page - 1) * size
    IN  IF rest <= 0 THEN 0 ELSE IF rest < size THEN rest ELSE size

Listing(user, total, items, page, size) ==
    [endpoint |-> "list", code |-> 200, status |-> "http", user |-> user,
     total |-> total, items |-> items, page |-> page, size |-> size]

\* list_chats.  The page is cut from the rows ordered by updated_at, which
\* every write sets: any rows of the query, as many as the page holds
ListChats(user, page, size, status, team_id, assigned_to_me) ==
    IF ~Permitted(user, "chat", "read")
    THEN NoChange("list", 403)
    ELSE LET rows == ListQuery(chats, user, status, team_id, assigned_to_me)
             total == Cardinality(rows)
         IN  /\ \E items \in SUBSET rows :
                  /\ Cardinality(items) = PageLength(total, page, size)
                  /\ response' = Answer(Listing(user, total, items, page, size))
             /\ gateway_calls' = Calls(<<>>)
             /\ EmitEvents(<<>>)
             /\ UNCHANGED <<contacts, chats, messages, chatbot_configs,
                            chat_configs, now, requests>>

-----------------------------------------------------------------------------
(* Inputs *)

Instances == {InstanceName, UnknownInstance}
ChatIds == 1..(MaxChats + 1)

AudioMessage == [audioMessage |-> [url |-> Some(<<"https://mmg.whatsapp.net/a">>)]]

NoCloseData == [classification |-> None, rating |-> Null, closing_comments |-> None]
FullCloseData ==
    [classification |-> "Resolvido", rating |-> Some(9), closing_comments |-> "ok"]

SendOutcomes == {"ok", "api_error", "transport_error"}

-----------------------------------------------------------------------------
(* Spec: one server process with one handler suspended at a time, one      *)
(* contact and groups, the lifecycle operations of one agent and transfers *)
(* to a second agent; the log is off.                                      *)

Ingest ==
    \E remote_jid \in {JidA, JidGroup, JidEmpty}, sent \in BOOLEAN :
        HandleMessageUpsert("r1", InstanceName, remote_jid, "MSG1", FALSE,
                            TextMessage(<<"1">>), sent)

Welcome == \E sent \in BOOLEAN : WelcomeSent("r1", sent)

Send == \E c \in ChatIds : SendMessage("r1", c, "agent1")

SendDone == \E outcome \in SendOutcomes : SendMessageDone("r1", outcome)

Transfer == \E c \in ChatIds, u \in {"agent2", None} : TransferChat(c, "teamB", u)

Close == \E c \in ChatIds : CloseChat("r1", c, FullCloseData, "agent1")

CloseDone == \E sent \in BOOLEAN : CloseChatDone("r1", sent)

Reopen == \E c \in ChatIds : ReopenChat(c, "agent1")

Next ==
    \/ Ingest
    \/ Welcome
    \/ Send
    \/ SendDone
    \/ Transfer
    \/ Close
    \/ CloseDone
    \/ Reopen
    \/ Tick

Init ==
    \/ Start(<<>>, <<>>, LogOff)
    \/ Start(<<>>, <<ConnectedConfig>>, LogOff)
    \/ Start(<<StandardChatbotConfig>>, <<ConnectedConfig>>, LogOff)

Spec == Init /\ [][Next]_vars

-----------------------------------------------------------------------------
(* SpecReplies: the webhook and the chatbot's replies, with the log on:    *)
(* typed input of every kind, every chatbot configuration, events of a     *)
(* known and of an unknown instance, within one second of the clock.       *)

\* An option code, two padded ones, no option and no number, a rating, two
\* ratings out of range
Texts == {<<"1">>, <<" ", "2", " ">>, <<" ", "3">>, <<"a", "b", "c">>, <<"7">>,
          <<"0">>, <<"1", "1">>}

ChatbotConfigs ==
    {DefaultChatbotConfig, StandardChatbotConfig, BareChatbotConfig,
     InactiveChatbotConfig}

IngestReplies ==
    \E instance \in Instances,
       message \in {TextMessage(t) : t \in Texts} \cup {AudioMessage},
       sent \in BOOLEAN :
        HandleMessageUpsert("r1", instance, JidA, "MSG1", FALSE, message, sent)

\* A message of a group, and one with no chat at all
IngestIgnored ==
    \E remote_jid \in {JidGroup, JidEmpty} :
        HandleMessageUpsert("r1", InstanceName, remote_jid, "MSG1", FALSE,
                            TextMessage(<<"1">>), TRUE)

\* A message whose key has no id
IngestUnidentified ==
    HandleMessageUpsert("r1", InstanceName, JidA, None, FALSE,
                        TextMessage(<<"1">>), TRUE)

CloseReplies == CloseChat("r1", 1, NoCloseData, "agent1")

Reconfigure == \E cfg \in ChatbotConfigs : UpdateChatbotConfig(cfg)

NextReplies ==
    \/ IngestReplies
    \/ IngestIgnored
    \/ IngestUnidentified
    \/ Welcome
    \/ HandleMalformed
    \/ HandleUnknownEvent
    \/ CloseReplies
    \/ CloseDone
    \/ Reconfigure

InitReplies ==
    \E chatbot_rows \in {<<>>} \cup {<<cfg>> : cfg \in ChatbotConfigs} :
        Start(chatbot_rows, <<ConnectedConfig>>, Http("start", 200))

SpecReplies == InitReplies /\ [][NextReplies]_vars

-----------------------------------------------------------------------------
(* SpecWorkers: two server processes, each handling a delivery of an       *)
(* inbound message of one contact; contacts.upsert events, closes without  *)
(* a gateway instance, and the clock.  No chatbot row exists; the log is   *)
(* off.                                                                    *)

ContactsUpsert == \E remote_jid \in {JidA, JidGroup} : HandleContactsUpsert(remote_jid)

LookupContact ==
    \E p \in Slots :
        WorkerLookupContact(p, JidA, IF p = "r1" THEN "MSG1" ELSE "MSG2",
                            TextMessage(<<"1">>))

InsertContact == \E p \in Slots : WorkerInsertContact(p)

LookupChat == \E p \in Slots : WorkerLookupChat(p)

InsertChat == \E p \in Slots : WorkerInsertChat(p)

Commit == \E p \in Slots, sent \in BOOLEAN : WorkerCommit(p, sent)

CloseWorkers == \E c \in ChatIds : CloseChat("r1", c, NoCloseData, "agent1")

NextWorkers ==
    \/ ContactsUpsert
    \/ LookupContact
    \/ InsertContact
    \/ LookupChat
    \/ InsertChat
    \/ Commit
    \/ CloseWorkers
    \/ Tick

InitWorkers == Start(<<>>, <<>>, LogOff)

SpecWorkers == InitWorkers /\ [][NextWorkers]_vars

-----------------------------------------------------------------------------
(* SpecAccess: what each user is shown.  One contact, a connected gateway  *)
(* instance and no chatbot row; transfers to both teams and to both        *)
(* agents, closes and reopens; every user lists the conversations, page by *)
(* page.  The log is on.                                                   *)

Pages == {DefaultPage, DefaultPage + 1}
Sizes == {1, DefaultSize}

IngestAccess ==
    HandleMessageUpsert("r1", InstanceName, JidA, "MSG1", FALSE,
                        TextMessage(<<"1">>), TRUE)

TransferAccess ==
    \E c \in 1..MaxChats, t \in {"teamA", "teamB"}, u \in {"agent1", "agent2", None} :
        TransferChat(c, t, u)

CloseAccess == \E c \in 1..MaxChats : CloseChat("r1", c, NoCloseData, "agent1")

ReopenAccess == \E c \in 1..MaxChats : ReopenChat(c, "agent1")

List ==
    \E user \in UserIds, page \in Pages, size \in Sizes :
        ListChats(user, page, size, None, None, FALSE)

\* The list of the waiting conversations of team A assigned to the caller
ListFiltered ==
    \E user \in UserIds :
        ListChats(user, DefaultPage, DefaultSize, ChatStatus.WAITING, "teamA", TRUE)

NextAccess ==
    \/ IngestAccess
    \/ TransferAccess
    \/ CloseAccess
    \/ ReopenAccess
    \/ List
    \/ ListFiltered
    \/ Tick

InitAccess == Start(<<>>, <<ConnectedConfig>>, Http("start", 200))

SpecAccess == InitAccess /\ [][NextAccess]_vars

-----------------------------------------------------------------------------
(* SpecSent: the lifecycle operations of one agent on the conversations of *)
(* one contact, with a gateway that posts a send.message event for every   *)
(* text it sent, at any time after it accepted the text.  Deployments with *)
(* and without a chatbot row, connected and not.  The log is on.           *)

IngestSent ==
    HandleMessageUpsert("r1", InstanceName, JidA, "MSG1", FALSE,
                        TextMessage(<<"7">>), TRUE)

AcceptEarly == GatewayAccepts("r1")

PostSendMessage ==
    /\ events # Unsubscribed
    /\ \E e \in events : HandleSendMessage(e)

NextSent ==
    \/ IngestSent
    \/ Welcome
    \/ Send
    \/ SendDone
    \/ Transfer
    \/ Close
    \/ CloseDone
    \/ Reopen
    \/ AcceptEarly
    \/ PostSendMessage

InitSent ==
    /\ contacts = {}
    /\ chats = <<>>
    /\ messages = <<>>
    /\ chatbot_configs \in {<<>>, <<InactiveChatbotConfig>>, <<StandardChatbotConfig>>}
    /\ chat_configs \in {<<ConnectedConfig>>, <<DisconnectedConfig>>}
    /\ now = 0
    /\ requests = [p \in Slots |-> Idle]
    /\ events = {}
    /\ gateway_calls = <<>>
    /\ response = Http("start", 200)

SpecSent == InitSent /\ [][NextSent]_vars

-----------------------------------------------------------------------------
(* SpecResolve: which conversation an inbound message goes to.  Two        *)
(* contacts write, within a second and across seconds; conversations are   *)
(* closed with the rating request sent or refused.  A chatbot row exists,  *)
(* active or not.  Up to MaxStored messages; the log is on.                *)

IngestResolve ==
    \E remote_jid \in {JidA, JidB} :
        HandleMessageUpsertWithin(MaxStored, "r1", InstanceName, remote_jid, "MSG1",
                                  FALSE, TextMessage(<<"a", "b", "c">>), TRUE)

CloseResolve == \E c \in 1..MaxChats : CloseChat("r1", c, NoCloseData, "agent1")

NextResolve ==
    \/ IngestResolve
    \/ Welcome
    \/ CloseResolve
    \/ CloseDone
    \/ Tick

InitResolve ==
    \E cfg \in {InactiveChatbotConfig, StandardChatbotConfig} :
        Start(<<cfg>>, <<ConnectedConfig>>, Http("start", 200))

SpecResolve == InitResolve /\ [][NextResolve]_vars

-----------------------------------------------------------------------------
(* SpecOwned: the chatbot beside the agents.  One contact keeps writing    *)
(* (up to MaxStored messages) while its conversation goes through the menu *)
(* and is answered, transferred, closed and reopened by agents.  The       *)
(* chatbot row is active and the instance connected; the log is on.        *)

IngestOwned ==
    HandleMessageUpsertWithin(MaxStored, "r1", InstanceName, JidA, "MSG1", FALSE,
                              TextMessage(<<"1">>), TRUE)

NextOwned ==
    \/ IngestOwned
    \/ Welcome
    \/ Send
    \/ SendDone
    \/ Transfer
    \/ Close
    \/ CloseDone
    \/ Reopen

InitOwned == Start(<<StandardChatbotConfig>>, <<ConnectedConfig>>, Http("start", 200))

SpecOwned == InitOwned /\ [][NextOwned]_vars

-----------------------------------------------------------------------------
(* SpecStatus: messages.upsert events of one contact's texts, received and *)
(* sent from the phone, and messages.update events for known and unknown   *)
(* message identifiers with every status code; the log is on.              *)

MaxStatusCode == 5

\* data.get("status"): 0 a missing status, 1..4 the mapped codes, 5 another
StatusCodes == 0..MaxStatusCode

\* key.get("id"): missing, two identifiers in use and one never stored
UpdateIds == {None, "MSG1", "MSG2", "MSG3"}

IngestStatus ==
    \E message_id \in {"MSG1", "MSG2"}, from_me \in BOOLEAN :
        HandleMessageUpsert("r1", InstanceName, JidA, message_id, from_me,
                            TextMessage(<<"1">>), TRUE)

UpdateStatus ==
    \E message_id \in UpdateIds, update_status \in StatusCodes :
        HandleMessageUpdate(message_id, update_status)

NextStatus ==
    \/ IngestStatus
    \/ UpdateStatus

InitStatus == Start(<<>>, <<ConnectedConfig>>, Http("start", 200))

SpecStatus == InitStatus /\ [][NextStatus]_vars

-----------------------------------------------------------------------------
(* SpecGroups: messages.upsert, send.message and contacts.upsert events    *)
(* for two contacts, a group and a missing identifier; the send.message    *)
(* events are those of texts any client of the gateway sent; agent 1      *)
(* closes conversations and the clock advances; the log is on.             *)

Jids == {JidA, JidB, JidGroup, JidEmpty}

\* The contacts.upsert payloads: one contact, or a list of two
ContactLists == {<<j>> : j \in Jids} \cup {<<JidGroup, j>> : j \in Jids}

\* The data of a send.message event for a text sent to remote_jid
SentTo(remote_jid) ==
    [instance |-> InstanceName, remote_jid |-> remote_jid, message_id |-> "SENT1",
     message |-> TextMessage(<<"1">>)]

IngestGroups ==
    \E remote_jid \in Jids, from_me \in BOOLEAN :
        HandleMessageUpsert("r1", InstanceName, remote_jid, "MSG1", from_me,
                            TextMessage(<<"1">>), TRUE)

ContactsGroups == \E remote_jids \in ContactLists : HandleContactsList(remote_jids)

SendGroups == \E remote_jid \in Jids : HandleSendMessage(SentTo(remote_jid))

NextGroups ==
    \/ IngestGroups
    \/ ContactsGroups
    \/ SendGroups
    \/ Close
    \/ Tick

InitGroups == Start(<<>>, <<ConnectedConfig>>, Http("start", 200))

SpecGroups == InitGroups /\ [][NextGroups]_vars

-----------------------------------------------------------------------------
(* Claims *)

\* The rows of chat_messages whose gateway message identifier is message_id
RowsOf(rows, message_id) == {i \in DOMAIN rows : rows[i].message_id = message_id}

\* C1: after every delivery of a messages.upsert event carrying an inbound
\* non-group message with identifier m, exactly one row of chat_messages has
\* message_id = m.
C1_ExactlyOneRowPerIdentifier ==
    [][\A remote_jid \in {JidA}, sent \in BOOLEAN :
          HandleMessageUpsert("r1", InstanceName, remote_jid, "MSG1", FALSE,
                              TextMessage(<<"1">>), sent)
          => Cardinality(RowsOf(messages', "MSG1")) = 1]_vars

\* C2: in every reachable state each contact has at most one conversation
\* whose status is not CLOSED.
C2_OneActiveChatPerContact ==
    \A contact_id \in contacts : Cardinality(ActiveChats(chats, contact_id)) <= 1

\* C3: a delivery that found no conversation for its contact commits the
\* conversation it creates only while the contact still has no non-CLOSED
\* conversation and none in RATING: of two concurrent deliveries, never both
\* create one.
C3_AtomicFindOrCreate ==
    [][\A p \in Slots, sent \in BOOLEAN :
          (WorkerCommit(p, sent) /\ requests[p].data[1].protocol # Null)
          => FindChat(chats, requests[p].jid, FALSE) = {}]_vars

\* C4: a send that read the conversation as WAITING and completes after a
\* close or transfer has given it another status leaves the status, the
\* assigned agent and the chatbot state as that close or transfer wrote them.
C4_SendKeepsNewerWrite ==
    [][(SendMessageDone("r1", "ok")
          /\ requests["r1"].snap[1].status = ChatStatus.WAITING
          /\ chats[requests["r1"].chat].status # ChatStatus.WAITING)
       => LET c == requests["r1"].chat
          IN  /\ chats'[c].status = chats[c].status
              /\ chats'[c].assigned_user_id = chats[c].assigned_user_id
              /\ chats'[c].chatbot_state = chats[c].chatbot_state]_vars

\* The steps of the webhook endpoint
WebhookStep ==
    \/ IngestReplies
    \/ IngestIgnored
    \/ IngestUnidentified
    \/ Welcome
    \/ HandleMalformed
    \/ HandleUnknownEvent

\* C5: whatever the payload and whatever happens inside (the handler ends,
\* the handler raises, the gateway refuses a bot reply, the database refuses
\* a row), handle_webhook answers the gateway with an acknowledgement, or is
\* still awaiting the gateway and acknowledges when the call ends; no
\* exception leaves the handler.
C5_WebhookAlwaysAcknowledges ==
    [][/\ \/ response' \in {WebhookOk, WebhookError}
          \/ response' = WebhookPending /\ requests'["r1"].pc = "welcome_send"
          \/ ~WebhookStep
       /\ Welcome => response' = WebhookOk]_vars

\* C5 witness: the gateway refused a bot reply and the event was acknowledged.
C5_Witness ==
    /\ response = WebhookError
    /\ gateway_calls # <<>>
    /\ ~gateway_calls[1].ok

\* A chatbot row exists and is active
ChatbotActive == chatbot_configs # <<>> /\ chatbot_configs[1].is_active

\* A messages.upsert event with an inbound text message of the contact
InboundText(instance, text, sent) ==
    HandleMessageUpsert("r1", instance, JidA, "MSG1", FALSE, TextMessage(text), sent)

\* The step stored the event's Message row
Stored == Len(messages') = Len(messages) + 1

\* The row it stored holds the text
StoredText(text) == Stored /\ messages'[Len(messages')].content = Some(text)

\* The conversation the step stored the row for
Target == messages'[Len(messages')].chat_id

\* That conversation was in the chatbot state before the step (a conversation
\* the step created starts in WELCOME)
TargetWas(state) ==
    IF Target \in DOMAIN chats
    THEN chats[Target].chatbot_state = state
    ELSE state = ChatbotState.WELCOME

\* The one gateway call of the step
OneCall(instance, text, sent) ==
    gateway_calls' = <<GatewayCall(instance, JidNumber(JidA), text, sent)>>

\* The options whose code is the text
OptionsWithCode(opts, text) == {i \in DOMAIN opts : opts[i].option = text}

\* The least element of a non-empty set of indexes
First(S) == CHOOSE i \in S : \A j \in S : i <= j

\* The text parses as an integer from 1 to 10
ValidRating(text) ==
    ParseInt(text).ok /\ 1 <= ParseInt(text).value /\ ParseInt(text).value <= 10

\* What the claims of the WELCOME branch state of the step after the await
WelcomeOutcome(sent, state) ==
    LET r == requests["r1"]
    IN  /\ gateway_calls' = <<GatewayCall(r.instance, JidNumber(r.jid), r.text, sent)>>
        /\ chats'[r.chat].chatbot_state = state

\* What they state of the step up to the await: the send of the welcome text
\* followed by the menu is under way, nothing else was sent
WelcomePending(instance) ==
    /\ requests'["r1"].pc = "welcome_send"
    /\ requests'["r1"].chat = Target
    /\ requests'["r1"].instance = instance
    /\ requests'["r1"].jid = JidA
    /\ requests'["r1"].text =
            chatbot_configs[1].welcome_message \o MenuText(chatbot_configs[1])
    /\ gateway_calls' = <<>>

C7_MenuOptionSelected ==
    [][\A instance \in Instances, text \in Texts, sent \in BOOLEAN :
          LET opts == MenuOptions(chatbot_configs[1])
              S == OptionsWithCode(opts, Strip(text))
          IN  (/\ StoredText(text)
               /\ ChatbotActive
               /\ HasChatConfig(chat_configs, instance)
               /\ TargetWas(ChatbotState.MENU)
               /\ S # {}
               /\ InboundText(instance, text, sent))
              => /\ chats'[Target].chatbot_state = ChatbotState.WAITING_AGENT
                 /\ chats'[Target].team_id =
                        IF opts[First(S)].team_id # None
                        THEN opts[First(S)].team_id
                        ELSE chats[Target].team_id
                 /\ OneCall(instance,
                            IF chatbot_configs[1].queue_message # <<>>
                            THEN chatbot_configs[1].queue_message
                            ELSE DefaultQueueMessage(opts[First(S)].text),
                            sent)]_vars

\* C7 witness: the option of team A was chosen and the queue text was sent.
C7_Witness ==
    /\ chats # <<>>
    /\ chats[1].chatbot_state = ChatbotState.WAITING_AGENT
    /\ chats[1].team_id = "teamA"
    /\ gateway_calls = <<GatewayCall(InstanceName, JidNumber(JidA), QueueMessage, TRUE)>>

\* C7 as stated: with the chatbot active, an inbound message for a
\* conversation in MENU whose text equals the code of a menu option moves the
\* state to WAITING_AGENT, sets the team to that option's target team when it
\* has one, and sends the queue text.
C7_Original ==
    [][\A instance \in Instances, text \in Texts, sent \in BOOLEAN :
          LET opts == MenuOptions(chatbot_configs[1])
          IN  (/\ StoredText(text)
               /\ ChatbotActive
               /\ TargetWas(ChatbotState.MENU)
               /\ InboundText(instance, text, sent))
              => \A i \in OptionsWithCode(opts, text) :
                    /\ chats'[Target].chatbot_state = ChatbotState.WAITING_AGENT
                    /\ opts[i].team_id # None
                         => chats'[Target].team_id = opts[i].team_id
                    /\ Len(gateway_calls') = 1]_vars

\* The invalid-option text of the row, or the handler's
InvalidOptionText(cfg) ==
    IF cfg.invalid_option_message # <<>>
    THEN cfg.invalid_option_message
    ELSE DefaultInvalidOption

\* C8 (amended): with the chatbot active and a gateway instance row for the
\* event's instance, a stored inbound message for a conversation in MENU
\* whose text, stripped of surrounding blanks, is the code of no menu option
\* leaves the state MENU and the team as it was, and calls the gateway once
\* with the invalid-option text followed by the menu.
C8_MenuOptionUnknown ==
    [][\A instance \in Instances, text \in Texts, sent \in BOOLEAN :
          LET cfg == chatbot_configs[1]
          IN  (/\ StoredText(text)
               /\ ChatbotActive
               /\ HasChatConfig(chat_configs, instance)
               /\ TargetWas(ChatbotState.MENU)
               /\ OptionsWithCode(MenuOptions(cfg), Strip(text)) = {}
               /\ InboundText(instance, text, sent))
              => /\ chats'[Target].chatbot_state = ChatbotState.MENU
                 /\ chats'[Target].team_id = chats[Target].team_id
                 /\ OneCall(instance, InvalidOptionText(cfg) \o MenuText(cfg), sent)]_vars

\* C8 witness: the invalid-option text and the menu were sent, the state is
\* MENU and no team is set.
C8_Witness ==
    /\ chats # <<>>
    /\ chats[1].chatbot_state = ChatbotState.MENU
    /\ chats[1].team_id = None
    /\ gateway_calls = <<GatewayCall(InstanceName, JidNumber(JidA),
                                     CustomInvalidOption \o MenuText(StandardChatbotConfig),
                                     TRUE)>>

\* C8 as stated: with the chatbot active, an inbound message for a
\* conversation in MENU whose text is the code of no menu option leaves the
\* state MENU and the team as it was, and sends the invalid-option text
\* followed by the menu.
C8_Original ==
    [][\A instance \in Instances, text \in Texts, sent \in BOOLEAN :
          LET cfg == chatbot_configs[1]
          IN  (/\ StoredText(text)
               /\ ChatbotActive
               /\ TargetWas(ChatbotState.MENU)
               /\ OptionsWithCode(MenuOptions(cfg), text) = {}
               /\ InboundText(instance, text, sent))
              => /\ chats'[Target].chatbot_state = ChatbotState.MENU
                 /\ chats'[Target].team_id = chats[Target].team_id
                 /\ OneCall(instance, InvalidOptionText(cfg) \o MenuText(cfg), sent)]_vars

\* The thanks text of the row, or the handler's
RatingThanksText(cfg) ==
    IF cfg.rating_thanks_message # <<>>
    THEN cfg.rating_thanks_message
    ELSE DefaultRatingThanks

\* C9 (amended): with the chatbot active and a gateway instance row for the
\* event's instance, a stored inbound message for a conversation in RATING
\* whose text parses as an integer r from 1 to 10 stores r as the rating,
\* moves the state to FINISHED and calls the gateway once with the thanks
\* text.
C9_RatingStored ==
    [][\A instance \in Instances, text \in Texts, sent \in BOOLEAN :
          (/\ StoredText(text)
           /\ ChatbotActive
           /\ HasChatConfig(chat_configs, instance)
           /\ TargetWas(ChatbotState.RATING)
           /\ ValidRating(text)
           /\ InboundText(instance, text, sent))
          => /\ chats'[Target].rating = Some(ParseInt(text).value)
             /\ chats'[Target].chatbot_state = ChatbotState.FINISHED
             /\ OneCall(instance, RatingThanksText(chatbot_configs[1]), sent)]_vars

\* C9 witness: the rating 7 is stored, the state is FINISHED and the thanks
\* text was sent.
C9_Witness ==
    /\ chats # <<>>
    /\ chats[1].chatbot_state = ChatbotState.FINISHED
    /\ chats[1].rating = Some(7)
    /\ gateway_calls = <<GatewayCall(InstanceName, JidNumber(JidA),
                                     CustomRatingThanks, TRUE)>>

\* C9 as stated: with the chatbot active, an inbound message for a
\* conversation in RATING whose text parses as an integer r from 1 to 10
\* stores r as the rating, moves the state to FINISHED and sends the thanks
\* text.
C9_Original ==
    [][\A instance \in Instances, text \in Texts, sent \in BOOLEAN :
          (/\ StoredText(text)
           /\ ChatbotActive
           /\ TargetWas(ChatbotState.RATING)
           /\ ValidRating(text)
           /\ InboundText(instance, text, sent))
          => /\ chats'[Target].rating = Some(ParseInt(text).value)
             /\ chats'[Target].chatbot_state = ChatbotState.FINISHED
             /\ OneCall(instance, RatingThanksText(chatbot_configs[1]), sent)]_vars

\* C10 (amended): with the chatbot active and a gateway instance row for the
\* event's instance, a stored inbound message for a conversation in RATING
\* whose text does not parse as an integer, or parses to one outside 1..10,
\* leaves the state RATING and the rating as it was, and calls the gateway
\* once with the rating-retry prompt.
C10_RatingRetry ==
    [][\A instance \in Instances, text \in Texts, sent \in BOOLEAN :
          (/\ StoredText(text)
           /\ ChatbotActive
           /\ HasChatConfig(chat_configs, instance)
           /\ TargetWas(ChatbotState.RATING)
           /\ ~ValidRating(text)
           /\ InboundText(instance, text, sent))
          => /\ chats'[Target].chatbot_state = ChatbotState.RATING
             /\ chats'[Target].rating = chats[Target].rating
             /\ OneCall(instance, RatingRetryPrompt, sent)]_vars

\* C10 witness: the retry prompt was sent for a conversation in RATING that
\* has no rating.
C10_Witness ==
    /\ chats # <<>>
    /\ chats[1].chatbot_state = ChatbotState.RATING
    /\ chats[1].rating = Null
    /\ gateway_calls = <<GatewayCall(InstanceName, JidNumber(JidA),
                                     RatingRetryPrompt, TRUE)>>

\* C10 as stated: with the chatbot active, an inbound message for a
\* conversation in RATING whose text does not parse as an integer, or parses
\* to one outside 1..10, leaves the state RATING and the rating as it was,
\* and sends the rating-retry prompt.
C10_Original ==
    [][\A instance \in Instances, text \in Texts, sent \in BOOLEAN :
          (/\ StoredText(text)
           /\ ChatbotActive
           /\ TargetWas(ChatbotState.RATING)
           /\ ~ValidRating(text)
           /\ InboundText(instance, text, sent))
          => /\ chats'[Target].chatbot_state = ChatbotState.RATING
             /\ chats'[Target].rating = chats[Target].rating
             /\ OneCall(instance, RatingRetryPrompt, sent)]_vars

\* The conversations the policy of the claim shows the user
PolicyShows(row, user) ==
    \/ UserTable[user].is_superuser
    \/ row.assigned_user_id = user
    \/ /\ row.status = ChatStatus.WAITING
       /\ row.team_id = None \/ row.team_id \in UserTable[user].teams
    \/ /\ row.status = ChatStatus.CLOSED
       /\ row.team_id \in UserTable[user].teams

PolicySet(user) == {c \in DOMAIN chats : PolicyShows(chats[c], user)}

\* C11: for every user admitted to list_chats (active, holding chat:read; a
\* superuser holds it) the unfiltered list counts exactly the conversations
\* that the user is a superuser for, or is assigned, or that are WAITING
\* with no team or a team of the user, or CLOSED with a team of the user; a
\* page holds only such conversations, as many as fit, and the first page
\* holds them all when they fit.  A user who is not admitted is refused.
C11_ListVisibility ==
    [][\A user \in UserIds, page \in Pages, size \in Sizes :
          (/\ response'.endpoint = "list"
           /\ ListChats(user, page, size, None, None, FALSE))
          => IF Permitted(user, "chat", "read")
             THEN /\ response'.code = 200
                  /\ response'.total = Cardinality(PolicySet(user))
                  /\ response'.items \subseteq PolicySet(user)
                  /\ Cardinality(response'.items)
                        = PageLength(response'.total, page, size)
                  /\ (page = 1 /\ response'.total <= size)
                        => response'.items = PolicySet(user)
             ELSE response'.code = 403]_vars

\* C11 witness: agent 1 of team A listed two conversations and was shown the
\* first only; the second is in progress with agent 2.
C11_Witness ==
    /\ response.endpoint = "list"
    /\ response.code = 200
    /\ response.user = "agent1"
    /\ response.size = DefaultSize
    /\ Len(chats) = 2
    /\ response.items = {1}
    /\ chats[2].status = ChatStatus.IN_PROGRESS
    /\ chats[2].assigned_user_id = "agent2"

\* The outbound rows of conversation c that hold the text
OutboundRows(ms, c, text) ==
    {i \in DOMAIN ms :
        ms[i].chat_id = c /\ ms[i].from_me /\ ms[i].content = Some(text)}

\* The rating request close_chat sends
RatingRequestText == OrText(chatbot_configs[1].rating_request_message, DefaultRatingRequest)

\* close_chat returns after the gateway accepted its rating request, for a
\* conversation it read as IN_PROGRESS
CloseReturnsSent(c) ==
    /\ requests["r1"].pc = "close_send"
    /\ requests["r1"].chat = c
    /\ requests["r1"].snap[1].status = ChatStatus.IN_PROGRESS
    /\ CloseChatDone("r1", TRUE)

\* The gateway posts the event of the rating request of conversation c,
\* which an agent held and whose close has returned
RatingRequestPosted(c) ==
    /\ chatbot_configs # <<>>
    /\ events # Unsubscribed
    /\ chats[c].status = ChatStatus.CLOSED
    /\ chats[c].chatbot_state = ChatbotState.RATING
    /\ chats[c].assigned_user_id # None
    /\ FreeSlot("r1")
    /\ \E e \in events :
          /\ e.remote_jid = chats[c].contact_id
          /\ e.message.conversation = Some(RatingRequestText)
          /\ HandleSendMessage(e)

\* C12: when close_chat returns for a conversation it read as IN_PROGRESS,
\* with a chatbot row present and the rating request accepted by the
\* gateway, the conversation is CLOSED with chatbot state RATING; and once
\* the gateway has posted the event of that rating request, one outbound
\* row holding the request is recorded for the conversation: already
\* recorded when close_chat returns after the event, added by the event when
\* it comes after.
C12_CloseRecordsRatingRequest ==
    [][\A c \in DOMAIN chats :
          /\ CloseReturnsSent(c)
                => /\ chats'[c].status = ChatStatus.CLOSED
                   /\ chats'[c].chatbot_state = ChatbotState.RATING
                   /\ events' = {} => OutboundRows(messages', c, requests["r1"].text) # {}
          /\ RatingRequestPosted(c)
                => Cardinality(OutboundRows(messages', c, RatingRequestText))
                      = Cardinality(OutboundRows(messages, c, RatingRequestText)) + 1]_vars

\* close_chat, called on a conversation that is not CLOSED, returns after
\* the gateway refused its rating request
CloseReturnsUnsent ==
    /\ requests["r1"].pc = "close_send"
    /\ requests["r1"].snap[1].status # ChatStatus.CLOSED
    /\ CloseChatDone("r1", FALSE)

\* C13: when close_chat is called on a conversation that is not CLOSED and
\* its send of the rating request fails, the conversation becomes CLOSED
\* with chatbot state FINISHED, the classification, the closing comment, the
\* closing agent and a close time are recorded, no outbound row is created
\* and no event that would create one is raised, and close_chat answers 200.
C13_CloseSurvivesFailedSend ==
    [][CloseReturnsUnsent
       => LET r == requests["r1"]
              c == r.chat
          IN  /\ chats'[c].status = ChatStatus.CLOSED
              /\ chats'[c].chatbot_state = ChatbotState.FINISHED
              /\ chats'[c].classification = r.data[1].classification
              /\ chats'[c].closing_comments = r.data[1].closing_comments
              /\ chats'[c].closed_by_id = r.user
              /\ chats'[c].closed_at # Null
              /\ messages' = messages
              /\ events' = events
              /\ response' = Http("close", 200)]_vars

\* C13 witness: the close of a conversation in progress has returned 200 after
\* the gateway refused the rating request; the conversation is closed and
\* finished and holds the inbound row only.
C13_Witness ==
    /\ response = Http("close", 200)
    /\ gateway_calls # <<>>
    /\ ~gateway_calls[1].ok
    /\ Len(chats) = 1
    /\ chats[1].status = ChatStatus.CLOSED
    /\ chats[1].chatbot_state = ChatbotState.FINISHED
    /\ chats[1].assigned_user_id = "agent2"
    /\ chats[1].closed_by_id = "agent1"
    /\ chats[1].classification = "Resolvido"
    /\ events = {}
    /\ Len(messages) = 1

\* send_message returns; outcome is what the gateway did with the text
SendReturns(outcome) ==
    /\ requests["r1"].pc = "send_text"
    /\ SendMessageDone("r1", outcome)

\* The gateway posts the event of a text an agent sent to the contact of
\* conversation c
AgentTextPosted(c) ==
    /\ events # Unsubscribed
    /\ \E e \in events :
          /\ e.remote_jid = chats[c].contact_id
          /\ e.message.conversation = Some(AgentText)
          /\ HandleSendMessage(e)

\* The gateway instance is not connected
NotConnected ==
    \/ ActiveChatConfig(chat_configs) = Null
    \/ ActiveChatConfig(chat_configs)[1].connection_status # ConnectionStatus.CONNECTED

\* C15: a successful send_message on a conversation read as WAITING makes it
\* IN_PROGRESS, assigned to the sender, with the first-response time set; the
\* gateway's event of a text an agent sent adds one outbound row holding the
\* text to the conversation, whatever its status; a send that is refused
\* because the instance is not connected, or that the gateway fails, leaves
\* the conversations and the messages as they were and raises no event.
C15_SendEffects ==
    [][\A c \in DOMAIN chats :
          /\ (requests["r1"].chat = c /\ SendReturns("ok")
                /\ requests["r1"].snap[1].status = ChatStatus.WAITING)
                => /\ chats'[c].status = ChatStatus.IN_PROGRESS
                   /\ chats'[c].assigned_user_id = requests["r1"].user
                   /\ chats'[c].first_response_at # None
          /\ AgentTextPosted(c)
                => Cardinality(OutboundRows(messages', c, AgentText))
                      = Cardinality(OutboundRows(messages, c, AgentText)) + 1
          /\ (requests["r1"].chat = c
                /\ \E outcome \in SendOutcomes \ {"ok"} : SendReturns(outcome))
                => UNCHANGED <<chats, messages, events>>
          /\ (NotConnected /\ SendMessage("r1", c, "agent1"))
                => /\ response' = Http("send", 400)
                   /\ UNCHANGED <<chats, messages, events, requests>>]_vars

\* The conversations of the contact that are not CLOSED
OpenOf(jid) ==
    {i \in DOMAIN chats : chats[i].contact_id = jid /\ chats[i].status # ChatStatus.CLOSED}

\* The conversations of the contact in chatbot state RATING
RatedOf(jid) ==
    {i \in DOMAIN chats :
        chats[i].contact_id = jid /\ chats[i].chatbot_state = ChatbotState.RATING}

\* Those of them closed last
LastRatedOf(jid) ==
    {i \in RatedOf(jid) :
        /\ chats[i].closed_at # Null
        /\ \A j \in RatedOf(jid) :
              chats[j].closed_at # Null /\ chats[j].closed_at[1] <= chats[i].closed_at[1]}

\* An inbound message of the contact is stored
InboundStored(jid) ==
    /\ Len(messages') = Len(messages) + 1
    /\ HandleMessageUpsertWithin(MaxStored, "r1", InstanceName, jid, "MSG1", FALSE,
                                 TextMessage(<<"a", "b", "c">>), TRUE)

\* C16: an inbound message that is stored goes to a conversation of its
\* contact that is not CLOSED when there is one; otherwise to the contact's
\* conversation in chatbot state RATING that was closed last when there is
\* one; otherwise to a new conversation, WAITING and WELCOME.  No
\* conversation is created in the first two cases.
C16_ResolutionOrder ==
    [][\A jid \in {JidA, JidB} :
          InboundStored(jid)
          => LET c == messages'[Len(messages')].chat_id
             IN  IF OpenOf(jid) # {}
                 THEN c \in OpenOf(jid) /\ Len(chats') = Len(chats)
                 ELSE IF RatedOf(jid) # {}
                 THEN c \in LastRatedOf(jid) /\ Len(chats') = Len(chats)
                 ELSE /\ c = Len(chats) + 1
                      /\ Len(chats') = Len(chats) + 1
                      /\ chats'[c].contact_id = jid
                      /\ chats'[c].status = ChatStatus.WAITING
                      /\ chats'[c].chatbot_state = ChatbotState.WELCOME]_vars

\* C16 witness: contact A has two closed conversations awaiting a rating, the
\* first closed after the second, and A's third message went to the first.
C16_Witness ==
    /\ Len(chats) = 2
    /\ \A i \in {1, 2} :
          /\ chats[i].contact_id = JidA
          /\ chats[i].status = ChatStatus.CLOSED
          /\ chats[i].chatbot_state = ChatbotState.RATING
    /\ chats[1].closed_at[1] > chats[2].closed_at[1]
    /\ Len(messages) = 3
    /\ messages[3].chat_id = 1
    /\ messages[2].chat_id = 2

\* An inbound text is stored for a conversation in the chatbot state, the
\* chatbot runs, and the gateway refuses its reply
ReplyRefused(instance, text, state) ==
    /\ StoredText(text)
    /\ ChatbotActive
    /\ HasChatConfig(chat_configs, instance)
    /\ TargetWas(state)
    /\ InboundText(instance, text, FALSE)

BotInvoked ==
    /\ requests["r1"].pc = "idle"
    /\ response'.endpoint = "webhook"
    /\ gateway_calls' # <<>> \/ requests'["r1"].pc = "welcome_send"

\* The rows of chat_messages are kept, in their order
RowsKept == Len(messages') >= Len(messages) /\ SubSeq(messages', 1, Len(messages)) = messages

\* A conversation of the contact is found, or one can be created
Resolvable(jid) ==
    FindChat(chats, jid, FALSE) # {} \/ ~ProtocolTaken(chats, Protocol(now))

\* C18: the row of an inbound message is stored in the step that invokes the
\* chatbot, whether the gateway accepts the bot's reply or not, and no step
\* removes a row: not the end of the welcome send, accepted or refused, and
\* no other.  Every inbound message with an identifier, of a contact that
\* is not a group, for which a conversation is found or created, has its row
\* stored by the step that handles it.
C18_InboundRowKept ==
    [][/\ RowsKept
       /\ BotInvoked
            => /\ Stored
               /\ ~messages'[Len(messages')].from_me
               /\ messages'[Len(messages')].message_id = "MSG1"
       /\ \A sent \in BOOLEAN :
            WelcomeSent("r1", sent)
            => /\ messages' = messages
               /\ \E i \in DOMAIN messages : messages[i].chat_id = requests["r1"].chat
       /\ \A instance \in Instances, text \in Texts, sent \in BOOLEAN :
            ~(/\ messages' = messages
              /\ response'.endpoint = "webhook"
              /\ Resolvable(JidA)
              /\ InboundText(instance, text, sent))]_vars

\* C18 witness: the gateway refused the reply to a text that is no option;
\* the event was acknowledged with status error and the text is stored.
C18_Witness ==
    /\ response = WebhookError
    /\ gateway_calls # <<>>
    /\ ~gateway_calls[1].ok
    /\ Len(messages) = 2
    /\ messages[2].content = Some(<<"a", "b", "c">>)
    /\ ~messages[2].from_me
    /\ chats[1].chatbot_state = ChatbotState.MENU

\* An inbound message of a contact that has no conversation to go to
InboundNeedsChat(jid) ==
    /\ FindChat(chats, jid, FALSE) = {}
    /\ HandleMessageUpsertWithin(MaxStored, "r1", InstanceName, jid, "MSG1", FALSE,
                                 TextMessage(<<"a", "b", "c">>), TRUE)

\* C19: the protocol codes of the conversations are pairwise different, and
\* an inbound message that needs a new conversation gets one, with its row
\* stored and the event not answered with an error, also when another
\* conversation was created in the same second.
C19_ProtocolNeverCollides ==
    [][/\ \A i, j \in DOMAIN chats' :
            i # j => chats'[i].protocol # chats'[j].protocol
       /\ \A jid \in {JidA, JidB} :
            InboundNeedsChat(jid)
            => /\ Len(chats') = Len(chats) + 1
               /\ chats'[Len(chats')].contact_id = jid
               /\ Stored
               /\ response' # WebhookError]_vars

\* The chatbot states in which a conversation is left to the agents
AgentOwned ==
    {ChatbotState.WAITING_AGENT, ChatbotState.WITH_AGENT, ChatbotState.FINISHED}

\* C20: an inbound message stored for a conversation whose chatbot state is
\* WAITING_AGENT, WITH_AGENT or FINISHED makes no gateway call and suspends
\* no handler at one, leaves every conversation as it was (chatbot state,
\* team, rating and status included), and is acknowledged with status ok.
C20_AgentOwnedStatesSilent ==
    [][(/\ StoredText(<<"1">>)
        /\ Target \in DOMAIN chats
        /\ chats[Target].chatbot_state \in AgentOwned
        /\ IngestOwned)
       => /\ gateway_calls' = <<>>
          /\ requests' = requests
          /\ chats' = chats
          /\ response' = WebhookOk]_vars

\* C20 witness: the contact chose the option of team A and wrote again; the
\* third message was stored, nothing was sent for it, and the conversation
\* still waits for an agent of team A.
C20_Witness ==
    /\ response = WebhookOk
    /\ gateway_calls = <<>>
    /\ Len(messages) = 3
    /\ messages[3].chat_id = 1
    /\ chats[1].chatbot_state = ChatbotState.WAITING_AGENT
    /\ chats[1].team_id = "teamA"
    /\ chats[1].status = ChatStatus.WAITING

\* C20 witnesses for the two other states: a message stored for a
\* conversation an agent has answered, and for one that is finished and was
\* transferred after its close.
C20_WitnessWithAgent ==
    /\ response = WebhookOk
    /\ gateway_calls = <<>>
    /\ Len(messages) = 2
    /\ messages[2].chat_id = 1
    /\ chats[1].chatbot_state = ChatbotState.WITH_AGENT

C20_WitnessFinished ==
    /\ response = WebhookOk
    /\ gateway_calls = <<>>
    /\ Len(messages) = 2
    /\ messages[2].chat_id = 1
    /\ chats[1].chatbot_state = ChatbotState.FINISHED
    /\ chats[1].status # ChatStatus.CLOSED

\* C14: a reopen of a conversation whose status is not CLOSED is answered
\* 400 and changes nothing.
C14_ReopenOnlyClosed ==
    [][\A c \in DOMAIN chats :
          (chats[c].status # ChatStatus.CLOSED /\ ReopenChat(c, "agent1"))
          => /\ response' = Http("reopen", 400)
             /\ UNCHANGED <<contacts, chats, messages, chatbot_configs, chat_configs,
                            requests, events>>]_vars

\* C14 witness: the reopen of a conversation in progress with agent 2 was
\* answered 400; the conversation is still in progress with agent 2.
C14_Witness ==
    /\ response = Http("reopen", 400)
    /\ Len(chats) = 1
    /\ chats[1].status = ChatStatus.IN_PROGRESS
    /\ chats[1].assigned_user_id = "agent2"

\* C21: a reopen of a CLOSED conversation leaves it IN_PROGRESS, assigned to
\* the requesting agent, with chatbot state WITH_AGENT and with no close
\* timestamp, closing agent, classification, rating or closing comment.
C21_ReopenClearsCloseData ==
    [][\A c \in DOMAIN chats :
          (chats[c].status = ChatStatus.CLOSED /\ ReopenChat(c, "agent1"))
          => /\ chats'[c].status = ChatStatus.IN_PROGRESS
             /\ chats'[c].assigned_user_id = "agent1"
             /\ chats'[c].chatbot_state = ChatbotState.WITH_AGENT
             /\ chats'[c].closed_at = Null
             /\ chats'[c].closed_by_id = None
             /\ chats'[c].classification = None
             /\ chats'[c].rating = Null
             /\ chats'[c].closing_comments = None]_vars

\* C22: a messages.update event adds and removes no row of any table; when
\* no message has its identifier, or its status code is none of 1..4, it
\* changes nothing; otherwise every message keeps every field other than
\* status, and a message with another identifier keeps its status too.
C22_StatusEventOnlySetsStatus ==
    [][\A message_id \in UpdateIds, update_status \in StatusCodes :
          HandleMessageUpdate(message_id, update_status)
          => /\ UNCHANGED <<contacts, chats, chatbot_configs, chat_configs, requests>>
             /\ DOMAIN messages' = DOMAIN messages
             /\ (\A i \in DOMAIN messages : messages[i].message_id # message_id)
                   => messages' = messages
             /\ update_status \notin 1..4 => messages' = messages
             /\ \A i \in DOMAIN messages :
                   /\ [messages'[i] EXCEPT !.status = messages[i].status] = messages[i]
                   /\ messages[i].message_id # message_id
                         => messages'[i] = messages[i]]_vars

\* C22 witness: the event with code 3 for the stored message MSG1 was
\* handled; the message is the only row and its status is delivered.
C22_Witness ==
    /\ response = WebhookOk
    /\ Len(messages) = 1
    /\ messages[1].message_id = "MSG1"
    /\ messages[1].status = "delivered"

\* The place of a delivery status in pending, sent, delivered, read (0: a
\* status outside the four)
Stage(status) ==
    CASE status = "pending" -> 1
      [] status = "sent" -> 2
      [] status = "delivered" -> 3
      [] status = "read" -> 4
      [] OTHER -> 0

\* C23: no step moves the status of a message from one of the stages
\* pending, sent, delivered, read to an earlier one.
C23_StatusOnlyAdvances ==
    [][\A i \in DOMAIN messages :
          (Stage(messages[i].status) # 0 /\ Stage(messages'[i].status) # 0)
          => Stage(messages[i].status) <= Stage(messages'[i].status)]_vars

\* An event of one of the three kinds whose remote identifier is jid
EventFor(jid) ==
    \/ \E from_me \in BOOLEAN :
          HandleMessageUpsert("r1", InstanceName, jid, "MSG1", from_me,
                              TextMessage(<<"1">>), TRUE)
    \/ HandleContactsList(<<jid>>)
    \/ HandleSendMessage(SentTo(jid))

\* C24: after every step no contact row has the identifier of a group or an
\* empty identifier, and a messages.upsert, send.message or contacts.upsert
\* event whose remote identifier is a group or is missing adds no contact,
\* no conversation and no message.
C24_GroupsNeverStored ==
    [][/\ \A j \in contacts' : j # JidEmpty /\ ~IsGroupJid(j)
       /\ \A jid \in {JidGroup, JidEmpty} :
             EventFor(jid) => UNCHANGED <<contacts, chats, messages>>]_vars

\* C24 witness: contact B is known from a contacts.upsert list that named the
\* group first; no conversation and no message exist.
C24_Witness ==
    /\ response = WebhookOk
    /\ contacts = {JidB}
    /\ chats = <<>>
    /\ messages = <<>>

\* C25: a second delivery of the inbound message MSG1, when a row with that
\* identifier is already stored, makes no gateway call, suspends no handler
\* at a send, and leaves the chatbot state, team and rating of every
\* conversation as they were.
C25_RedeliveryInert ==
    [][(/\ \E i \in DOMAIN messages :
              messages[i].message_id = "MSG1" /\ ~messages[i].from_me
        /\ IngestOwned)
       => /\ gateway_calls' = <<>>
          /\ requests' = requests
          /\ \A c \in DOMAIN chats :
                /\ chats'[c].chatbot_state = chats[c].chatbot_state
                /\ chats'[c].team_id = chats[c].team_id
                /\ chats'[c].rating = chats[c].rating]_vars

\* No handler is suspended at an await: the operations so far ran one at a
\* time
Quiescent == \A p \in Slots : FreeSlot(p)

\* C26: whenever no operation is under way, every conversation whose status
\* is IN_PROGRESS has the chatbot state WITH_AGENT.
C26_InProgressIsWithAgent ==
    Quiescent =>
        \A c \in DOMAIN chats :
            chats[c].status = ChatStatus.IN_PROGRESS
                => chats[c].chatbot_state = ChatbotState.WITH_AGENT

\* C27: whenever no operation is under way, every conversation whose status
\* is not CLOSED has no close timestamp and no closing agent.
C27_OpenHasNoCloseData ==
    Quiescent =>
        \A c \in DOMAIN chats :
            chats[c].status # ChatStatus.CLOSED
                => chats[c].closed_at = Null /\ chats[c].closed_by_id = None

\* C28: a close or a reopen that agent 1 (no superuser) asks for a
\* conversation that list_chats does not show to agent 1 is refused with 403
\* or 404 and changes no conversation.
C28_HiddenIsRefused ==
    [][\A c \in DOMAIN chats :
          (/\ ~VisibleTo(chats[c], "agent1")
           /\ \/ CloseChat("r1", c, NoCloseData, "agent1")
              \/ ReopenChat(c, "agent1"))
          => /\ response'.code \in {403, 404}
             /\ chats' = chats]_vars

\* C29: with the chatbot active and a gateway instance row for the event's
\* instance, a stored inbound audio message (no text content) for a
\* conversation in MENU or RATING leaves the chatbot state as it was, is
\* answered by one gateway call (the invalid-option text with the menu in
\* MENU, the retry prompt in RATING), and raises no error: the webhook
\* answers status ok unless the gateway refused that call.
C29_NoTextIsRePrompted ==
    [][\A instance \in Instances, sent \in BOOLEAN :
          (/\ Stored
           /\ messages'[Len(messages')].content = Null
           /\ ChatbotActive
           /\ HasChatConfig(chat_configs, instance)
           /\ TargetWas(ChatbotState.MENU) \/ TargetWas(ChatbotState.RATING)
           /\ HandleMessageUpsert("r1", instance, JidA, "MSG1", FALSE, AudioMessage, sent))
          => /\ chats'[Target].chatbot_state = chats[Target].chatbot_state
             /\ sent => response' = WebhookOk
             /\ IF TargetWas(ChatbotState.MENU)
                THEN OneCall(instance,
                             InvalidOptionText(chatbot_configs[1])
                                 \o MenuText(chatbot_configs[1]), sent)
                ELSE OneCall(instance, RatingRetryPrompt, sent)]_vars

\* C30: whenever no operation is under way, every conversation that is not
\* CLOSED is IN_PROGRESS exactly when it has an assigned agent.
C30_InProgressIffAssigned ==
    Quiescent =>
        \A c \in DOMAIN chats :
            chats[c].status # ChatStatus.CLOSED
                => (chats[c].status = ChatStatus.IN_PROGRESS
                        <=> chats[c].assigned_user_id # None)

\* C30 witness: agent 1 answered the conversation, which was then
\* transferred to team B without a target agent: it waits again, unassigned.
C30_Witness ==
    /\ Quiescent
    /\ Len(chats) = 1
    /\ chats[1].first_response_at = "set"
    /\ chats[1].status = ChatStatus.WAITING
    /\ chats[1].team_id = "teamB"
    /\ chats[1].assigned_user_id = None

\* C30 witness for the other direction: a closed conversation was reopened
\* by agent 1 and is in progress with agent 1.
C30_WitnessReopened ==
    /\ Quiescent
    /\ Len(chats) = 1
    /\ chats[1].status = ChatStatus.IN_PROGRESS
    /\ chats[1].assigned_user_id = "agent1"
    /\ chats[1].classification = "Resolvido"

====
